---- MODULE Spec2Model ----
(***************************************************************************)
(* A model of PizzaHi5/flock_it: the StrategyManager orchestrator          *)
(* (src/trading_agents/manager.py) and the signal rules of the strategy    *)
(* agents (src/trading_agents/<kind>/<kind>.py).                           *)
(*                                                                         *)
(* StrategyManager.start is a coroutine.  Code between two awaits runs     *)
(* without interruption on the asyncio event loop, so one action of the    *)
(* model is one such stretch of code: it ends at the next await, at the    *)
(* return or at the raise.  Several invocations of start on one manager    *)
(* may overlap at their awaits; Calls are these invocations.               *)
(*                                                                         *)
(* Prices, thresholds and percentages are integers; a comparison of a      *)
(* quotient with a threshold is made by cross-multiplication, which is     *)
(* exact, where the code computes in binary floating point.                *)
(***************************************************************************)
EXTENDS Integers, Sequences, FiniteSets, TLC

\* ---------------------------------------------------------------- bounds
\* Overlapping or successive invocations of StrategyManager.start.
NumCalls == 2
\* Names the policy's answers hold in all, over the invocations of start.
MaxNames == 3

Calls == 1..NumCalls

\* Keys of the registry passed to StrategyManager.__init__, the names the
\* activation policy is told about (manager.py:91).
StrategyKeys == {"momentum", "breakout"}
\* TradingStrategy.name of the registered agents (agent_types.py:17,41).
ConfigNames == {"eth_momentum", "eth_breakout"}
\* What the policy's answer may name: registered keys, and the empty name
\* that "ACTIVATE:" followed by nothing splits into.
PolicyNames == StrategyKeys \cup {""}
\* Texts a strategy agent answers with.
Responses == {"TRADE"}

\* Longest price history.
MaxLen == 4
\* Largest window (in samples) an agent is constructed with.
MaxPeriod == 3

\* Sample values of a price history; 102 is 2% and 110 is 10% above 100.
PriceValues == {0, 100, 102, 110}
\* Threshold parameters, in percent (2.0 is the default of every agent).
Thresholds == {1, 2, 5}
\* std_dev_threshold of the mean reversion agent, in standard deviations
\* (2.0 is its default).
StdDevThresholds == {0, 1, 2}
\* rsi_threshold of the trend agent (30.0 is its default); the constructor
\* takes any number, 120 is one above the range of the RSI.
RsiThresholds == {30, 120}
Periods == 1..MaxPeriod

\* <<macd_fast, macd_slow, macd_signal>> of the trend agent: fast < slow, as
\* in its defaults 12, 26, 9, and one with the signal window the longest.
MacdPeriods == {<<1, 2, 1>>, <<2, 3, 2>>, <<1, 2, 3>>}

\* The trend agents: constructor parameters of a TrendFollowingAgent
\* (trend.py:8-40).
TrendAgents ==
    [short_ma_periods : Periods, long_ma_periods : Periods, rsi_periods : Periods,
     rsi_threshold : RsiThresholds,
     macd_fast : Periods, macd_slow : Periods, macd_signal : Periods]

TrendConfigs ==
    {cfg \in TrendAgents :
        <<cfg.macd_fast, cfg.macd_slow, cfg.macd_signal>> \in MacdPeriods}

\* The trend agents that differ in rsi_periods only.
RsiConfigs ==
    {cfg \in TrendConfigs :
        /\ cfg.short_ma_periods = 1
        /\ cfg.long_ma_periods = 2
        /\ cfg.rsi_threshold = 30
        /\ cfg.macd_fast = 1
        /\ cfg.macd_signal = 1}

\* ma_periods of the algorithmic agent, sorted (algorithmic.py:29).
MaPeriodLists == {<<p>> : p \in Periods} \cup {<<1, MaxPeriod>>}

\* The algorithmic agents: constructor parameters of an
\* AlgorithmicTradingAgent (algorithmic.py:9-32).
AlgorithmicConfigs ==
    [ma_periods : MaPeriodLists, volatility_window : {2, MaxPeriod},
     volume_window : {2, MaxPeriod}, signal_threshold : {2, 5}]

\* What the metrics source reports of a token: <<volume_24_hours,
\* volume_24_hours_delta_percent>> and <<average_engagements_count,
\* average_engagements_count_delta_percent, followers_count>>, with a
\* smart_followers_count of 10.
VolumeReadings == {<<0, 400>>, <<2400, -60>>, <<2400, 0>>, <<2400, 60>>, <<2400, 400>>}

EngagementReadings ==
    {<<0, 60, 15>>, <<10, 60, 15>>, <<10, 60, 5>>, <<10, 30, 5>>, <<10, 0, 5>>,
     <<10, -30, 5>>, <<10, -60, 5>>}

MetricsSnapshots ==
    {[kind |-> "metrics",
      volume_24_hours |-> v[1],
      volume_24_hours_delta_percent |-> v[2],
      average_engagements_count |-> e[1],
      average_engagements_count_delta_percent |-> e[2],
      followers_count |-> e[3],
      smart_followers_count |-> 10] : v \in VolumeReadings, e \in EngagementReadings}

\* The snapshots that differ in the volume only.
VolumeSnapshots == {m \in MetricsSnapshots : m.average_engagements_count = 0}

\* The fields a strategy agent reads of a snapshot.
MetricsFields ==
    {"volume_24_hours", "volume_24_hours_delta_percent", "average_engagements_count",
     "average_engagements_count_delta_percent", "followers_count",
     "smart_followers_count"}

\* A snapshot without one of its fields.
Without(metrics, field) == [f \in (DOMAIN metrics) \ {field} |-> metrics[f]]

\* A snapshot on which, complete, the news agent sees a volume surge and a
\* very positive sentiment, lacking one field.
PartialSnapshots ==
    {Without([kind |-> "metrics",
              volume_24_hours |-> 2400,
              volume_24_hours_delta_percent |-> 400,
              average_engagements_count |-> 10,
              average_engagements_count_delta_percent |-> 60,
              followers_count |-> 15,
              smart_followers_count |-> 10], field) : field \in MetricsFields}

\* The same snapshot with twice the volume.
VolumeDoubled(metrics) ==
    [metrics EXCEPT !.volume_24_hours = 2 * metrics.volume_24_hours]

\* Snapshots that differ in what they tell of the volume: a volume of 0, a
\* volume, twice that volume, or a field missing.
NewsSnapshots ==
    VolumeSnapshots \cup {VolumeDoubled(m) : m \in VolumeSnapshots}
        \cup PartialSnapshots

\* The news agents: constructor parameters of a NewsEventTradingAgent
\* (news.py:9-29); 3.0 is the default volume_surge_threshold.
NewsConfigs ==
    [price_impact_threshold : Thresholds, volume_surge_threshold : {3},
     sentiment_periods : Periods]

\* News agents that differ in the volume_surge_threshold: the default, and
\* 1.0, the surge the agent assumes when it has no volume.
SurgeConfigs ==
    [price_impact_threshold : {5}, volume_surge_threshold : {1, 3},
     sentiment_periods : Periods]

\* Completed or aborted calls of optimize_parameters on one agent.
MaxOptCalls == 2

\* TradingStrategy.tokens of every configured agent (agent_types.py:20).
ConfiguredTokens == <<"ETH", "USDC">>

\* The agents whose threshold is optimized: the word of TradingStrategy.rules
\* that _calculate_strategy_adjustment looks for, <<stop_loss, take_profit>>
\* in percent (<<0, 0>> for none set), and the threshold the agent is
\* constructed with, in thousandths (2000 is the default 2.0).
OptimizedAgents ==
    [rules : {"momentum", "breakout"},
     risk : {<<0, 0>>, <<5, 5>>, <<5, 10>>},
     threshold : {500, 6000},
     tokens : {<<>>, ConfiguredTokens}]

\* Price histories the price source returns to the optimizer: flat, lively,
\* wild, a single sample, and one that holds a price of 0.
OptHistories ==
    {<<100, 100, 100>>, <<100, 102, 110>>, <<100, 110, 100>>, <<100>>, <<0, 100>>}

\* The longest price history the price source returns within a cycle.
MaxFetched == 2

\* 'volume_change_24h' of the market data, in percent.
VolumeChanges == {-120, 0, 60, 120}

\* random.uniform(0.98, 1.02), in percent.
Jitters == {98, 100, 102}

VARIABLES
    constructed,            \* StrategyManager.__init__ has run
    strategies,             \* self.strategies: key -> TradingStrategy.name
    active_strategies,      \* self.active_strategies: keys in insertion order
    strategy_responses,     \* self.strategy_responses: <<key, text>> in insertion order
    pc,                     \* per call of start: where it is suspended
    strategies_to_activate, \* per call: the local list of manager.py:113
    idx,                    \* per call: position of the for loop of manager.py:118
    report,                 \* per call: combined_analysis of manager.py:151
    error,                  \* per call: the exception start re-raised, or "none"
    policyCalls,            \* per call: answers process_strategy_response returned
    seen,                   \* per call: the active names when that answer arrived
    activated,              \* per call: names this call added to active_strategies
    skipped,                \* per call: names this call passed over at manager.py:119
    evalCount,              \* per key: agent.process_message calls begun so far
    prices,                 \* one token's price history, oldest first
    signal,                 \* the agent last run on prices, its parameters and result
    self_threshold,         \* a strategy agent's self.threshold, in thousandths
    opt,                    \* optimize_parameters of that agent: where it is suspended
    cycle                   \* the last generate_trading_signals over the token list

mgrVars == <<constructed, strategies, active_strategies, strategy_responses, pc,
             strategies_to_activate, idx, report, error, policyCalls, seen,
             activated, skipped, evalCount>>

indVars == <<prices, signal>>

agentVars == <<self_threshold, opt, cycle>>

vars == <<mgrVars, indVars, agentVars>>

\* ------------------------------------------------------- dict operations
Range(s) == {s[i] : i \in DOMAIN s}

\* The keys of an insertion-ordered dict held as a sequence of <<key, value>>.
DictKeys(d) == {d[i][1] : i \in DOMAIN d}

\* d[key] = value on an insertion-ordered dict: a present key keeps its
\* position, a new key goes last.
DictPut(d, key, value) ==
    IF key \in DictKeys(d)
    THEN [i \in DOMAIN d |-> IF d[i][1] = key THEN <<key, value>> ELSE d[i]]
    ELSE Append(d, <<key, value>>)

\* manager.py:172-195.  The policy's answer is held as whether it has a line
\* starting with ACTIVATE: and the comma-separated items after the colon.
\* ''.split(',') is [''], so a line with nothing after the colon gives one
\* empty name; an answer without the line gives the empty list.
extract_strategies(text) ==
    IF ~text.activate THEN <<>>
    ELSE IF text.items = <<>> THEN <<"">>
    ELSE text.items

\* The answers the policy may give.
SeqsUpTo(S, n) == UNION {[1..k -> S] : k \in 0..n}

PolicyTexts ==
    {[activate |-> FALSE, items |-> <<>>]}
    \cup {[activate |-> TRUE, items |-> s] : s \in SeqsUpTo(PolicyNames, MaxNames)}

\* ------------------------------------------------- StrategyManager.start
\* NeedsActivation with the membership test dropped.
NeedsActivationAlways(name, active) == TRUE

\* manager.py:119
NeedsActivation(name, active) == name \notin Range(active)

\* ActivateEntry that does not record the name.
ActivateForgets(active, name) == active

\* ActivateEntry that replaces the dict instead of extending it.
ActivateReplaces(active, name) == <<name>>

\* manager.py:121, self.active_strategies[strategy_name] = agent
ActivateEntry(active, name) ==
    IF name \in Range(active) THEN active ELSE Append(active, name)

\* FirstPending that takes the names from the end of the list.
RECURSIVE LastPending(_, _, _)
LastPending(names, i, active) ==
    IF i > Len(names) THEN i
    ELSE LET later == LastPending(names, i + 1, active)
         IN IF later <= Len(names) THEN later
            ELSE IF NeedsActivation(names[i], active) THEN i
            ELSE later

\* manager.py:118-119: the first position at or after i holding a name that is
\* to be activated; Len(names) + 1 when the loop runs out.
RECURSIVE FirstPending(_, _, _)
FirstPending(names, i, active) ==
    IF i > Len(names) THEN i
    ELSE IF NeedsActivation(names[i], active) THEN i
    ELSE FirstPending(names, i + 1, active)

\* Registered that finds an agent under every name.
RegisteredAlways(name, registry) == TRUE

\* manager.py:120, self.strategies[strategy_name] finds an agent; a KeyError
\* otherwise.
Registered(name, registry) == name \in DOMAIN registry

\* manager.py:151-155: the responses in the dict's iteration order.
CombinedAnalysis(responses) == responses

\* manager.py:118-166 from loop position `from` up to the next await: names
\* already active are passed over; the first other name is looked up (a
\* KeyError leaves through manager.py:168-170), recorded as active and its
\* agent awaited (manager.py:147); when the list runs out the summary prompt
\* is built from strategy_responses and awaited (manager.py:166).
\* `responses` is strategy_responses as this stretch of code sees it.
RunLoop(c, names, from, responses) ==
    LET i == FirstPending(names, from, active_strategies) IN
    /\ idx' = [idx EXCEPT ![c] = i]
    /\ skipped' = [skipped EXCEPT ![c] = @ \cup {names[j] : j \in from..(i - 1)}]
    /\ IF i > Len(names)
       THEN /\ report' = [report EXCEPT ![c] = CombinedAnalysis(responses)]
            /\ pc' = [pc EXCEPT ![c] = "summary"]
            /\ UNCHANGED <<active_strategies, activated, evalCount, error>>
       ELSE IF ~Registered(names[i], strategies)
       THEN /\ pc' = [pc EXCEPT ![c] = "raised"]
            /\ error' = [error EXCEPT ![c] = "KeyError"]
            /\ UNCHANGED <<active_strategies, activated, evalCount, report>>
       ELSE /\ active_strategies' = ActivateEntry(active_strategies, names[i])
            /\ activated' = [activated EXCEPT ![c] = @ \cup {names[i]}]
            /\ evalCount' = [evalCount EXCEPT ![names[i]] = @ + 1]
            /\ pc' = [pc EXCEPT ![c] = "evaluating"]
            /\ UNCHANGED <<report, error>>

\* Resume that asks the policy again after each evaluation, as a convergence
\* loop would.
ResumeAsksPolicy(c, names, from, responses) ==
    /\ pc' = [pc EXCEPT ![c] = "policy"]
    /\ UNCHANGED <<idx, skipped, report, active_strategies, activated, evalCount, error>>

\* manager.py:148-149 -> 118: after an evaluation the for loop goes on.
Resume(c, names, from, responses) == RunLoop(c, names, from, responses)

\* manager.py:30-47: the registry is stored as given.
Construct(agent_strategies) ==
    /\ ~constructed
    /\ constructed' = TRUE
    /\ strategies' = agent_strategies
    /\ active_strategies' = <<>>
    /\ strategy_responses' = <<>>
    /\ UNCHANGED <<indVars, agentVars, pc, strategies_to_activate, idx, report, error, policyCalls,
                   seen, activated, skipped, evalCount>>

\* manager.py:108-112: start is called and awaits the base agent's answer to
\* the initial message.
Start(c) ==
    /\ constructed
    /\ pc[c] = "idle"
    /\ pc' = [pc EXCEPT ![c] = "base"]
    /\ UNCHANGED <<indVars, agentVars, constructed, strategies, active_strategies, strategy_responses,
                   strategies_to_activate, idx, report, error, policyCalls, seen,
                   activated, skipped, evalCount>>

\* manager.py:112-113, 85-101: the base agent answered; the policy prompt is
\* sent and awaited.
AskPolicy(c) ==
    /\ pc[c] = "base"
    /\ pc' = [pc EXCEPT ![c] = "policy"]
    /\ UNCHANGED <<indVars, agentVars, constructed, strategies, active_strategies, strategy_responses,
                   strategies_to_activate, idx, report, error, policyCalls, seen,
                   activated, skipped, evalCount>>

\* Names the policy has returned so far, over all calls.
RECURSIVE NamesReturned(_)
NamesReturned(cs) ==
    IF cs = {} THEN 0
    ELSE LET c == CHOOSE x \in cs : TRUE
         IN Len(strategies_to_activate[c]) + NamesReturned(cs \ {c})

\* manager.py:101-106, 113-147: the policy answered `text`; the names are
\* extracted and the activation loop runs to its first await.
PolicyReturns(c, text) ==
    /\ pc[c] = "policy"
    /\ NamesReturned(Calls) + Len(extract_strategies(text)) <= MaxNames
    /\ strategies_to_activate' =
           [strategies_to_activate EXCEPT ![c] = extract_strategies(text)]
    /\ policyCalls' = [policyCalls EXCEPT ![c] = @ + 1]
    /\ seen' = [seen EXCEPT ![c] = Range(active_strategies)]
    /\ RunLoop(c, extract_strategies(text), 1, strategy_responses)
    /\ UNCHANGED <<indVars, agentVars, constructed, strategies, strategy_responses>>

\* manager.py:147-149: the agent answered `response`; it is recorded and the
\* loop goes on to its next await.
EvalReturns(c, response) ==
    /\ pc[c] = "evaluating"
    /\ LET name == strategies_to_activate[c][idx[c]]
           responses == DictPut(strategy_responses, name, response)
       IN /\ strategy_responses' = responses
          /\ Resume(c, strategies_to_activate[c], idx[c] + 1, responses)
    /\ UNCHANGED <<indVars, agentVars, constructed, strategies, strategies_to_activate, policyCalls, seen>>

\* manager.py:147, 168-170: agent.process_message raised; start logs the
\* exception and re-raises it.
EvalRaises(c) ==
    /\ pc[c] = "evaluating"
    /\ pc' = [pc EXCEPT ![c] = "raised"]
    /\ error' = [error EXCEPT ![c] = "EvaluationError"]
    /\ UNCHANGED <<indVars, agentVars, constructed, strategies, active_strategies, strategy_responses,
                   strategies_to_activate, idx, report, policyCalls, seen, activated,
                   skipped, evalCount>>

\* manager.py:166: the base agent answered the summary prompt; start returns.
SummaryReturns(c) ==
    /\ pc[c] = "summary"
    /\ pc' = [pc EXCEPT ![c] = "done"]
    /\ UNCHANGED <<indVars, agentVars, constructed, strategies, active_strategies, strategy_responses,
                   strategies_to_activate, idx, report, error, policyCalls, seen,
                   activated, skipped, evalCount>>

\* ------------------------------------------------------ python sequences
\* s[-k] for k >= 1; an IndexError when k > len(s).
NegIndexOk(s, k) == k <= Len(s)

NegIndex(s, k) == s[Len(s) - k + 1]

\* s[-k:] for k >= 1: the last k items, all of s when it is shorter.
LastItems(s, k) == IF k >= Len(s) THEN s ELSE SubSeq(s, Len(s) - k + 1, Len(s))

\* s[:-k] for k >= 1: s without its last k items.
DropLast(s, k) == IF k >= Len(s) THEN <<>> ELSE SubSeq(s, 1, Len(s) - k)

\* np.min, np.max of a non-empty sequence.
RECURSIVE np_min(_)
np_min(s) ==
    IF Len(s) = 1 THEN s[1]
    ELSE LET m == np_min(Tail(s)) IN IF s[1] < m THEN s[1] ELSE m

RECURSIVE np_max(_)
np_max(s) ==
    IF Len(s) = 1 THEN s[1]
    ELSE LET m == np_max(Tail(s)) IN IF s[1] > m THEN s[1] ELSE m

Abs(x) == IF x < 0 THEN -x ELSE x

\* num / den * 100 > threshold for den >= 0.  With den = 0 this is numpy's
\* answer: inf > threshold for num > 0, and False for nan and -inf.
PercentAbove(num, den, threshold) == num * 100 > threshold * den

\* num / den * 100 < threshold for den > 0.
PercentBelow(num, den, threshold) == num * 100 < threshold * den

NoSignal == [kind |-> "none"]

Raised(exc) == [kind |-> "raise", exc |-> exc]

\* -------------------------------------------------- momentum/momentum.py
\* momentum.py:83-100.  A change is held as <<numerator, denominator>> of the
\* fraction that the code multiplies by 100; Decimal("0") is <<0, 1>>.
\* prices[-short_term_periods] past the start of the list is an IndexError,
\* a division by a price of 0 a ZeroDivisionError.
momentum_calculate_price_changes(ps, short_term_periods, long_term_periods) ==
    IF Len(ps) < long_term_periods
    THEN [kind |-> "changes", short |-> <<0, 1>>, long |-> <<0, 1>>]
    ELSE IF Len(ps) = 0 \/ ~NegIndexOk(ps, short_term_periods)
                        \/ ~NegIndexOk(ps, long_term_periods)
    THEN Raised("IndexError")
    ELSE LET current_price == NegIndex(ps, 1)
             short_term_price == NegIndex(ps, short_term_periods)
             long_term_price == NegIndex(ps, long_term_periods)
         IN IF short_term_price = 0 \/ long_term_price = 0
            THEN Raised("ZeroDivisionError")
            ELSE [kind |-> "changes",
                  short |-> <<current_price - short_term_price, short_term_price>>,
                  long |-> <<current_price - long_term_price, long_term_price>>]

\* MomentumThresholdMet that does not look at the short-term change.
MomentumLongOnly(short, long, threshold) ==
    PercentAbove(Abs(long[1]), long[2], threshold)

\* MomentumThresholdMet that does not look at the long-term change.
MomentumShortOnly(short, long, threshold) ==
    PercentAbove(Abs(short[1]), short[2], threshold)

\* momentum.py:70
MomentumThresholdMet(short, long, threshold) ==
    /\ PercentAbove(Abs(short[1]), short[2], threshold)
    /\ PercentAbove(Abs(long[1]), long[2], threshold)

\* momentum.py:55-76, the loop body of generate_trading_signals for one token.
momentum_generate_trading_signals(ps, short_term_minutes, long_term_minutes, threshold) ==
    LET changes == momentum_calculate_price_changes(
                       ps, short_term_minutes \div 5, long_term_minutes \div 5)
    IN IF changes.kind = "raise" THEN changes
       ELSE IF MomentumThresholdMet(changes.short, changes.long, threshold)
       THEN [kind |-> "signal",
             direction |-> IF changes.short[1] > 0 THEN "Upward" ELSE "Downward"]
       ELSE NoSignal

\* -------------------------------------------------- breakout/breakout.py
\* breakout.py:89-104
breakout_calculate_support_resistance(ps, lookback) ==
    IF Len(ps) < lookback THEN <<0, 0>>
    ELSE LET price_window == LastItems(ps, lookback)
         IN <<np_min(price_window), np_max(price_window)>>

\* AllAbove that compares only the last confirmation price.
LastAbove(ps, level) == ps[Len(ps)] > level

\* breakout.py:135, all(p > resistance for p in confirmation_prices)
AllAbove(ps, level) == \A i \in DOMAIN ps : ps[i] > level

\* breakout.py:140, all(p < support for p in confirmation_prices)
AllBelow(ps, level) == \A i \in DOMAIN ps : ps[i] < level

\* breakout.py:106-145.  The levels are numpy scalars, so a division by a
\* level of 0 gives inf or nan and does not raise.
breakout_detect_breakout(ps, lookback_periods, breakout_threshold, confirmation_periods) ==
    IF Len(ps) < lookback_periods + confirmation_periods THEN NoSignal
    ELSE LET analysis_window == DropLast(ps, confirmation_periods)
             levels == breakout_calculate_support_resistance(
                           analysis_window, lookback_periods)
             support == levels[1]
             resistance == levels[2]
             confirmation_prices == LastItems(ps, confirmation_periods)
             current_price == NegIndex(confirmation_prices, 1)
         IN IF /\ AllAbove(confirmation_prices, resistance)
               /\ PercentAbove(current_price - resistance, resistance,
                               breakout_threshold)
            THEN [kind |-> "signal", direction |-> "Upward", level |-> resistance]
            ELSE IF /\ AllBelow(confirmation_prices, support)
                    /\ PercentAbove(support - current_price, support,
                                    breakout_threshold)
            THEN [kind |-> "signal", direction |-> "Downward", level |-> support]
            ELSE NoSignal

\* ------------------------------------------------- returns and their std
RECURSIVE Gcd(_, _)
Gcd(a, b) == IF b = 0 THEN a ELSE Gcd(b, a % b)

Lcm(a, b) == (a \div Gcd(a, b)) * b

RECURSIVE SetLcm(_)
SetLcm(S) == IF S = {} THEN 1 ELSE LET x == CHOOSE x \in S : TRUE
                                  IN Lcm(x, SetLcm(S \ {x}))

\* Every return (p2 - p1) / p1 between two sample prices is a whole number
\* of ReturnDen-ths; ReturnDen is a multiple of 100, and a return in percent
\* a whole number of PercentDen-ths.
ReturnDen == SetLcm(PriceValues \ {0})

PercentDen == ReturnDen \div 100

\* np.diff(w) / w[:-1] for a window w: the returns in ReturnDen-ths.  numpy
\* divides by a price of 0 without raising: x / 0 is inf and 0 / 0 is nan.
ReturnsFinite(w) == \A i \in 1..(Len(w) - 1) : w[i] # 0

ReturnsHaveNaN(w) == \E i \in 1..(Len(w) - 1) : w[i] = 0 /\ w[i + 1] = 0

ScaledReturns(w) ==
    [i \in 1..(Len(w) - 1) |-> (w[i + 1] - w[i]) * (ReturnDen \div w[i])]

\* A level above every c * n * PercentDen, c <= 5, that the square root of
\* a variance of n returns is compared with.
StdCap == 5 * (MaxLen + 1) * PercentDen

\* n * n times the variance of the n items of a, which is the sum of the
\* squared differences of every two of them, as far as StdCap squared: a
\* variance beyond it is held as StdCap squared plus one.
returns_var(a) ==
    LET pairs == {<<i, j>> \in (DOMAIN a) \X (DOMAIN a) : i < j}
        diffs == [i \in DOMAIN a |-> [j \in DOMAIN a |-> Abs(a[i] - a[j])]]
        RECURSIVE SumPairs(_)
        SumPairs(P) == IF P = {} THEN 0
                       ELSE LET q == CHOOSE q \in P : TRUE
                            IN diffs[q[1]][q[2]] * diffs[q[1]][q[2]] + SumPairs(P \ {q})
    IN IF \E q \in pairs : diffs[q[1]][q[2]] > StdCap THEN StdCap * StdCap + 1
       ELSE LET v == SumPairs(pairs)
            IN IF v > StdCap * StdCap THEN StdCap * StdCap + 1 ELSE v

\* np.std(returns) * 100 over the returns of window w, as a record: nan for
\* no returns at all and for returns that hold an inf or a nan, else var
\* and n with the value sqrt(var) / (n * PercentDen).
ZeroVolatility == [kind |-> "std", var |-> 0, n |-> 1]

NaN == [kind |-> "nan"]

np_std_percent(w) ==
    IF Len(w) < 2 \/ ~ReturnsFinite(w) THEN NaN
    ELSE [kind |-> "std", var |-> returns_var(ScaledReturns(w)), n |-> Len(w) - 1]

\* volatility > c and volatility < c; a comparison with nan is False.
VolatilityAbove(volatility, c) ==
    /\ volatility.kind = "std"
    /\ volatility.var > (c * volatility.n * PercentDen) * (c * volatility.n * PercentDen)

VolatilityBelow(volatility, c) ==
    /\ volatility.kind = "std"
    /\ volatility.var < (c * volatility.n * PercentDen) * (c * volatility.n * PercentDen)

\* -------------------------------------------------------- swing/swing.py
\* sorted(s), by insertion.
RECURSIVE InsertSorted(_, _)
InsertSorted(x, s) ==
    IF s = <<>> THEN <<x>>
    ELSE IF x <= s[1] THEN <<x>> \o s
    ELSE <<s[1]>> \o InsertSorted(x, Tail(s))

RECURSIVE Sorted(_)
Sorted(s) == IF s = <<>> THEN <<>> ELSE InsertSorted(s[1], Sorted(Tail(s)))

\* Four times np.percentile(window, 25 * quarters): linear interpolation
\* between the two order statistics around position quarters * (n - 1) / 4.
Percentile4(window, quarters) ==
    LET w == Sorted(window)
        q == quarters * (Len(w) - 1)
        lo == (q \div 4) + 1
        r == q % 4
    IN IF r = 0 THEN 4 * w[lo] ELSE 4 * w[lo] + r * (w[lo + 1] - w[lo])

\* swing.py:89-101: <<4 * support, 4 * resistance>>.
swing_calculate_support_resistance(ps, support_resistance_periods) ==
    IF Len(ps) < support_resistance_periods THEN <<0, 0>>
    ELSE LET window == LastItems(ps, support_resistance_periods)
         IN <<Percentile4(window, 1), Percentile4(window, 3)>>

\* swing.py:103-109.  returns[-volatility_window:] are the returns between
\* the last volatility_window + 1 samples, or all of them on a shorter
\* history.
swing_calculate_volatility(ps, volatility_window) ==
    IF Len(ps) < volatility_window THEN ZeroVolatility
    ELSE np_std_percent(LastItems(ps, volatility_window + 1))

\* swing.py:154, 163: support_distance < swing_threshold, with the distance
\* num / den * 100 as lines 150-151 compute it.
SwingNear(num, den, swing_threshold) == PercentBelow(num, den, swing_threshold)

\* swing.py:130-172, without the details text.  support and resistance are
\* python floats: (current_price - support) / support with support = 0.0 is
\* a ZeroDivisionError, and so is the division by a current price of 0 in
\* the line after it.
swing_detect_swing_opportunity(ps, lookback_periods, volatility_window, support_resistance_periods, swing_threshold) ==
    IF Len(ps) < lookback_periods THEN NoSignal
    ELSE LET levels == swing_calculate_support_resistance(
                           ps, support_resistance_periods)
             support4 == levels[1]
             resistance4 == levels[2]
             volatility == swing_calculate_volatility(ps, volatility_window)
             current_price == NegIndex(ps, 1)
             confidence == IF VolatilityAbove(volatility, 2) THEN "High" ELSE "Medium"
         IN IF support4 = 0 \/ current_price = 0 THEN Raised("ZeroDivisionError")
            ELSE IF SwingNear(4 * current_price - support4, support4,
                              swing_threshold)
            THEN [kind |-> "signal", direction |-> "Upward",
                  confidence |-> confidence]
            ELSE IF SwingNear(resistance4 - 4 * current_price,
                              4 * current_price, swing_threshold)
            THEN [kind |-> "signal", direction |-> "Downward",
                  confidence |-> confidence]
            ELSE NoSignal

\* ------------------------------------ mean_reversion/mean_reversion.py
RECURSIVE SumSeq(_)
SumSeq(s) == IF s = <<>> THEN 0 ELSE s[1] + SumSeq(Tail(s))

SquareSeq(s) == [i \in DOMAIN s |-> s[i] * s[i]]

\* n * n times the variance np.std squares: n * sum(x^2) - sum(x)^2 over the
\* n items of s, so that np.std(s) is the square root of it, divided by n.
np_var(s) == Len(s) * SumSeq(SquareSeq(s)) - SumSeq(s) * SumSeq(s)

\* mean_reversion.py:80-96.  The mean is held as <<sum, n>>, the standard
\* deviation as n * n times its square, and the z-score as <<d, v>>, which
\* stands for d / sqrt(v): (current_price - mean) / std_dev with numerator
\* and denominator both multiplied by n.  The z-score 0 is <<0, 1>>.
mean_reversion_calculate_statistics(ps, lookback) ==
    IF Len(ps) < lookback
    THEN [mean |-> <<0, 1>>, var |-> 0, z_score |-> <<0, 1>>]
    ELSE LET price_window == LastItems(ps, lookback)
             current_price == NegIndex(ps, 1)
             n == Len(price_window)
             var == np_var(price_window)
         IN [mean |-> <<SumSeq(price_window), n>>,
             var |-> var,
             z_score |-> IF var > 0
                         THEN <<n * current_price - SumSeq(price_window), var>>
                         ELSE <<0, 1>>]

\* ZExceeds with >= in the place of >.
ZAtLeast(z_score, std_dev_threshold) ==
    z_score[1] * z_score[1] >= std_dev_threshold * std_dev_threshold * z_score[2]

\* mean_reversion.py:66, abs(z_score) > self.std_dev_threshold, for a
\* threshold that is not negative: both sides squared.
ZExceeds(z_score, std_dev_threshold) ==
    z_score[1] * z_score[1] > std_dev_threshold * std_dev_threshold * z_score[2]

\* mean_reversion.py:52-73, the loop body of generate_trading_signals for one
\* token.
mean_reversion_generate_trading_signals(ps, lookback_periods, std_dev_threshold) ==
    LET stats == mean_reversion_calculate_statistics(ps, lookback_periods)
    IN IF ZExceeds(stats.z_score, std_dev_threshold)
       THEN [kind |-> "signal",
             direction |-> IF stats.z_score[1] < 0 THEN "Buy" ELSE "Sell"]
       ELSE NoSignal

\* -------------------------------------------------------- trend/trend.py
\* a < b for two quotients <<numerator, denominator>> with denominators > 0.
RatLess(a, b) == a[1] * b[2] < b[1] * a[2]

RatSub(a, b) == <<a[1] * b[2] - b[1] * a[2], a[2] * b[2]>>

\* np.diff
np_diff(s) == [i \in 1..(Len(s) - 1) |-> s[i + 1] - s[i]]

\* trend.py:101-105: the average as <<sum, periods>>, 0.0 as <<0, 1>>.
trend_calculate_ma(ps, periods) ==
    IF Len(ps) < periods THEN <<0, 1>>
    ELSE <<SumSeq(LastItems(ps, periods)), periods>>

\* trend.py:110
RsiNeutral == <<50, 1>>

\* RsiNoLoss with the neutral value in the place of 100.
RsiNoLossNeutral == <<50, 1>>

\* trend.py:120
RsiNoLoss == <<100, 1>>

\* trend.py:107-124.  With G and L the sums of the gains and of the losses
\* over the last `periods` differences, rs is G / L and
\* 100 - 100 / (1 + rs) is 100 * G / (G + L).
trend_calculate_rsi(ps, periods) ==
    IF Len(ps) < periods + 1 THEN RsiNeutral
    ELSE LET deltas == LastItems(np_diff(ps), periods)
             gains == SumSeq([i \in DOMAIN deltas |->
                                 IF deltas[i] > 0 THEN deltas[i] ELSE 0])
             losses == SumSeq([i \in DOMAIN deltas |->
                                  IF deltas[i] < 0 THEN -deltas[i] ELSE 0])
         IN IF losses = 0 THEN RsiNoLoss
            ELSE <<100 * gains, gains + losses>>

\* trend.py:126-136: <<macd, signal>>
trend_calculate_macd(ps, macd_fast, macd_slow, macd_signal) ==
    IF Len(ps) < macd_slow THEN <<(<<0, 1>>), (<<0, 1>>)>>
    ELSE LET fast_ma == trend_calculate_ma(ps, macd_fast)
             slow_ma == trend_calculate_ma(ps, macd_slow)
         IN <<RatSub(fast_ma, slow_ma),
              trend_calculate_ma(LastItems(ps, macd_signal), macd_signal)>>

\* trend.py:149-161: what the three indicators say, as
\* <<ma_trend, rsi_signal, macd_trend>>.  cfg is the agent: its constructor
\* parameters (trend.py:8-40).
trend_votes(ps, cfg) ==
    LET short_ma == trend_calculate_ma(ps, cfg.short_ma_periods)
        long_ma == trend_calculate_ma(ps, cfg.long_ma_periods)
        rsi == trend_calculate_rsi(ps, cfg.rsi_periods)
        macd == trend_calculate_macd(ps, cfg.macd_fast, cfg.macd_slow, cfg.macd_signal)
    IN << IF RatLess(long_ma, short_ma) THEN "Bullish" ELSE "Bearish",
          IF RatLess(rsi, <<cfg.rsi_threshold, 1>>) THEN "Oversold"
          ELSE IF RatLess(<<100 - cfg.rsi_threshold, 1>>, rsi) THEN "Overbought"
          ELSE "Neutral",
          IF RatLess(macd[2], macd[1]) THEN "Bullish" ELSE "Bearish" >>

\* trend.py:164-167
bullish_signals(votes) ==
    Cardinality({i \in DOMAIN votes : votes[i] \in {"Bullish", "Oversold"}})

bearish_signals(votes) ==
    Cardinality({i \in DOMAIN votes : votes[i] \in {"Bearish", "Overbought"}})

\* TrendFires that is content with a majority.
TrendFiresOnMajority(bullish, bearish) == Abs(bullish - bearish) >= 1

\* trend.py:169
TrendFires(bullish, bearish) == Abs(bullish - bearish) >= 2

\* trend.py:138-181
trend_analyze_trend(ps, cfg) ==
    IF Len(ps) < cfg.long_ma_periods THEN NoSignal
    ELSE LET votes == trend_votes(ps, cfg)
             bullish == bullish_signals(votes)
             bearish == bearish_signals(votes)
         IN IF TrendFires(bullish, bearish)
            THEN [kind |-> "signal",
                  direction |-> IF bullish > bearish THEN "Upward" ELSE "Downward",
                  strength |-> IF Abs(bullish - bearish) = 3
                               THEN "Strong" ELSE "Moderate"]
            ELSE NoSignal

\* trend.py:46-70, the loop body of analyze_market_conditions for one token:
\* the indicators, and prices[-1] in the text, an IndexError on an empty
\* history.
trend_analyze_market_conditions(ps, cfg) ==
    IF Len(ps) = 0 THEN Raised("IndexError")
    ELSE LET macd == trend_calculate_macd(ps, cfg.macd_fast, cfg.macd_slow,
                                          cfg.macd_signal)
         IN [kind |-> "conditions",
             short_ma |-> trend_calculate_ma(ps, cfg.short_ma_periods),
             long_ma |-> trend_calculate_ma(ps, cfg.long_ma_periods),
             rsi |-> trend_calculate_rsi(ps, cfg.rsi_periods),
             macd |-> macd[1],
             macd_signal |-> macd[2]]

\* ------------------------------------------ algorithmic/algorithmic.py
\* A quotient that may be nan or inf, as numpy computes it.
Fin(num, den) == [kind |-> "fin", num |-> num, den |-> den]

Inf == [kind |-> "inf"]

\* What the metrics source may have failed to return.
NoMetrics == [kind |-> "fail"]

\* algorithmic.py:94-104: <<period, <<sum, period>>>> for every period the
\* history is long enough for.
RECURSIVE algorithmic_calculate_moving_averages(_, _)
algorithmic_calculate_moving_averages(ps, ma_periods) ==
    IF ma_periods = <<>> THEN <<>>
    ELSE LET period == ma_periods[1]
             rest == algorithmic_calculate_moving_averages(ps, Tail(ma_periods))
         IN IF Len(ps) >= period
            THEN <<(<<period, <<SumSeq(LastItems(ps, period)), period>> >>)>> \o rest
            ELSE rest

\* algorithmic.py:106-112
algorithmic_calculate_volatility(ps, volatility_window) ==
    IF Len(ps) < volatility_window THEN ZeroVolatility
    ELSE np_std_percent(LastItems(ps, volatility_window))

\* algorithmic.py:114-130.  Any failure of the metrics source, and the
\* AttributeError of a snapshot without the field, is "Unknown".
algorithmic_analyze_volume_profile(metrics) ==
    IF metrics = NoMetrics THEN "Unknown"
    ELSE IF "volume_24_hours_delta_percent" \notin DOMAIN metrics THEN "Unknown"
    ELSE IF metrics.volume_24_hours_delta_percent > 50 THEN "High"
    ELSE IF metrics.volume_24_hours_delta_percent < -50 THEN "Low"
    ELSE "Normal"

\* algorithmic.py:132-138: np.sum(returns) * 100 in PercentDen-ths.  A sum
\* that holds a nan is nan; prices are not negative, so an inf in it is +inf.
algorithmic_calculate_momentum(ps, volume_window) ==
    IF Len(ps) < volume_window THEN Fin(0, PercentDen)
    ELSE LET w == LastItems(ps, volume_window)
         IN IF ReturnsHaveNaN(w) THEN NaN
            ELSE IF ~ReturnsFinite(w) THEN Inf
            ELSE Fin(SumSeq(ScaledReturns(w)), PercentDen)

\* np.clip(x / den, -1, 1) * den
np_clip(x, den) == IF x > den THEN den ELSE IF x < -den THEN -den ELSE x

\* algorithmic.py:180, np.clip(momentum / 5.0, -1, 1).  np.clip leaves a nan
\* as it is.
algorithmic_momentum_score(momentum) ==
    IF momentum.kind = "nan" THEN NaN
    ELSE IF momentum.kind = "inf" THEN Fin(1, 1)
    ELSE Fin(np_clip(momentum.num, 5 * momentum.den), 5 * momentum.den)

\* algorithmic.py:166-201: the scores.  total_score has the denominator
\* 10 * (number of averages) * (denominator of the momentum score).
algorithmic_scores(ps, cfg, metrics) ==
    LET mas == algorithmic_calculate_moving_averages(ps, cfg.ma_periods)
        volatility == algorithmic_calculate_volatility(ps, cfg.volatility_window)
        volume_profile == algorithmic_analyze_volume_profile(metrics)
        momentum == algorithmic_calculate_momentum(ps, cfg.volume_window)
        current_price == NegIndex(ps, 1)
        ma_scores == [i \in DOMAIN mas |->
                         IF RatLess(mas[i][2], <<current_price, 1>>) THEN 1 ELSE -1]
        ma_consensus == Fin(SumSeq(ma_scores), Len(ma_scores))
        vol_score == IF VolatilityBelow(volatility, 2) THEN 1
                     ELSE IF VolatilityAbove(volatility, 5) THEN -1 ELSE 0
        momentum_score == algorithmic_momentum_score(momentum)
        volume_score == CASE volume_profile = "High" -> 1
                          [] volume_profile = "Normal" -> 0
                          [] volume_profile = "Low" -> -1
                          [] volume_profile = "Unknown" -> 0
        k == ma_consensus.den
        m == momentum_score.den
    IN [kind |-> "scores",
        ma_consensus |-> ma_consensus,
        momentum_score |-> momentum_score,
        vol_score |-> vol_score,
        volume_score |-> volume_score,
        total_score |->
            IF momentum_score.kind = "nan" THEN NaN
            ELSE Fin(4 * ma_consensus.num * m + 3 * k * momentum_score.num
                         + 2 * vol_score * k * m + 1 * volume_score * k * m,
                     10 * k * m)]

\* algorithmic.py:150-219.  abs(nan) > x is False.
algorithmic_generate_algorithmic_signal(ps, cfg, metrics) ==
    IF Len(ps) < np_max(cfg.ma_periods) THEN NoSignal
    ELSE LET total_score == algorithmic_scores(ps, cfg, metrics).total_score
         IN IF total_score.kind = "nan" THEN NoSignal
            ELSE IF 10 * Abs(total_score.num) > cfg.signal_threshold * total_score.den
            THEN [kind |-> "signal",
                  direction |-> IF total_score.num > 0 THEN "Upward" ELSE "Downward",
                  probability |-> Fin((total_score.num + total_score.den) * 50,
                                      total_score.den)]
            ELSE NoSignal

\* ---------------------------------------------------------- news/news.py
\* news.py:101-108, in percent.  The prices are python floats: a division by
\* a start price of 0 is a ZeroDivisionError.
news_calculate_price_change(ps, sentiment_periods) ==
    IF Len(ps) < sentiment_periods THEN Fin(0, 1)
    ELSE LET start_price == NegIndex(ps, sentiment_periods)
             current_price == NegIndex(ps, 1)
         IN IF start_price = 0 THEN Raised("ZeroDivisionError")
            ELSE Fin((current_price - start_price) * 100, start_price)

\* news_analyze_market_sentiment with the two negative tests in the other
\* order.
SentimentVeryNegativeFirst(metrics) ==
    IF metrics.average_engagements_count = 0 THEN "Neutral"
    ELSE LET engagement_change == metrics.average_engagements_count_delta_percent
             follower_change == metrics.followers_count - metrics.smart_followers_count
         IN IF engagement_change > 50 /\ follower_change > 0 THEN "Very Positive"
            ELSE IF engagement_change > 25 THEN "Positive"
            ELSE IF engagement_change < -50 /\ follower_change < 0 THEN "Very Negative"
            ELSE IF engagement_change < -25 THEN "Negative"
            ELSE "Neutral"

\* news_calculate_volume_surge that returns current_volume undivided.
VolumeSurgeUndivided(metrics) ==
    IF "volume_24_hours" \notin DOMAIN metrics THEN Fin(1, 1)
    ELSE IF metrics.volume_24_hours = 0 THEN Fin(1, 1)
    ELSE IF "volume_24_hours_delta_percent" \notin DOMAIN metrics
    THEN Raised("AttributeError")
    ELSE Fin(metrics.volume_24_hours_delta_percent * metrics.volume_24_hours, 2400)

\* news.py:110-118.  avg_volume is volume_24_hours / 24 and current_volume
\* is volume_24_hours_delta_percent / 100 * avg_volume, so their quotient is
\* volume_24_hours_delta_percent / 100.
news_calculate_volume_surge(metrics) ==
    IF "volume_24_hours" \notin DOMAIN metrics THEN Fin(1, 1)
    ELSE IF metrics.volume_24_hours = 0 THEN Fin(1, 1)
    ELSE IF "volume_24_hours_delta_percent" \notin DOMAIN metrics
    THEN Raised("AttributeError")
    ELSE IF metrics.volume_24_hours > 0
    THEN Fin(metrics.volume_24_hours_delta_percent, 100)
    ELSE Fin(1, 1)

\* news.py:122-126: the attributes _analyze_market_sentiment reads are not all
\* there, which is an AttributeError.
news_sentiment_raises(metrics) ==
    \/ "average_engagements_count" \notin DOMAIN metrics
    \/ /\ metrics.average_engagements_count # 0
       /\ ~({"average_engagements_count_delta_percent", "followers_count",
             "smart_followers_count"} \subseteq DOMAIN metrics)

\* news.py:120-137, where it does not raise
news_analyze_market_sentiment(metrics) ==
    IF metrics.average_engagements_count = 0 THEN "Neutral"
    ELSE LET engagement_change == metrics.average_engagements_count_delta_percent
             follower_change == metrics.followers_count - metrics.smart_followers_count
         IN IF engagement_change > 50 /\ follower_change > 0 THEN "Very Positive"
            ELSE IF engagement_change > 25 THEN "Positive"
            ELSE IF engagement_change < -25 THEN "Negative"
            ELSE IF engagement_change < -50 /\ follower_change < 0 THEN "Very Negative"
            ELSE "Neutral"

\* NewsFires that does not look at the volume.
NewsFiresOnPriceAlone(price_change, volume_surge, cfg) ==
    Abs(price_change.num) > cfg.price_impact_threshold * price_change.den

\* news.py:159-160
NewsFires(price_change, volume_surge, cfg) ==
    /\ Abs(price_change.num) > cfg.price_impact_threshold * price_change.den
    /\ volume_surge.num > cfg.volume_surge_threshold * volume_surge.den

\* news.py:165-168: "Positive" in sentiment, "Negative" in sentiment
sentiment_aligned(direction, sentiment) ==
    \/ direction = "Upward" /\ sentiment \in {"Positive", "Very Positive"}
    \/ direction = "Downward" /\ sentiment \in {"Negative", "Very Negative"}

\* news.py:139-181
news_detect_news_opportunity(ps, cfg, metrics) ==
    IF Len(ps) < cfg.sentiment_periods THEN NoSignal
    ELSE LET price_change == news_calculate_price_change(ps, cfg.sentiment_periods)
             volume_surge == news_calculate_volume_surge(metrics)
             sentiment == news_analyze_market_sentiment(metrics)
         IN IF price_change.kind = "raise" THEN price_change
            ELSE IF volume_surge.kind = "raise" THEN volume_surge
            ELSE IF news_sentiment_raises(metrics) THEN Raised("AttributeError")
            ELSE IF NewsFires(price_change, volume_surge, cfg)
            THEN LET direction == IF price_change.num > 0 THEN "Upward" ELSE "Downward"
                 IN [kind |-> "signal", direction |-> direction,
                     confidence |-> IF sentiment_aligned(direction, sentiment)
                                    THEN "High" ELSE "Medium"]
            ELSE NoSignal

\* news.py:72-86 for one token: the metrics are fetched first, outside any
\* try, then the prices, then the opportunity is looked for.
news_generate_trading_signals(ps, cfg, metrics) ==
    IF metrics = NoMetrics THEN Raised("FetchError")
    ELSE news_detect_news_opportunity(ps, cfg, metrics)

\* ------------------------------------------------ base/base_strategy.py
\* Thresholds and adjustment factors are held in thousandths, rounded
\* towards zero where the code rounds to the nearest binary float.
\* x * pct / 100 for a factor given in percent.
Times(x, pct) == (x * pct) \div 100

Max(a, b) == IF a > b THEN a ELSE b

Min(a, b) == IF a < b THEN a ELSE b

\* volatility >= c and volatility <= c; a comparison with nan is False.
VolatilityAtLeast(volatility, c) ==
    volatility.kind = "std" /\ ~VolatilityBelow(volatility, c)

VolatilityAtMost(volatility, c) ==
    volatility.kind = "std" /\ ~VolatilityAbove(volatility, c)

\* base_strategy.py:176-180.  The returns are python floats: a price of 0
\* before the last one is a ZeroDivisionError.
base_volatility(ps) ==
    IF ~ReturnsFinite(ps) THEN Raised("ZeroDivisionError")
    ELSE np_std_percent(ps)

\* MetricsVolumeChange that keeps a stale reading when the fetch fails.
MetricsVolumeChangeStale(market_data) ==
    IF market_data = NoMetrics THEN 120 ELSE market_data.volume_change_24h

\* base_strategy.py:183-191: the volume change, 0 when the fetch raised.
MetricsVolumeChange(market_data) ==
    IF market_data = NoMetrics THEN 0 ELSE market_data.volume_change_24h

\* base_strategy.py:219-294, with rules the word of the rules text that the
\* chain of tests finds first.
base_calculate_strategy_adjustment(volatility, volume_change, rules) ==
    LET one == 1000
        strategy ==
            CASE rules = "momentum" ->
                     IF VolatilityAbove(volatility, 5) THEN Times(one, 90)
                     ELSE IF VolatilityBelow(volatility, 1) THEN Times(one, 110)
                     ELSE one
              [] rules = "reversion" ->
                     IF VolatilityAbove(volatility, 5) THEN Times(one, 110)
                     ELSE IF VolatilityBelow(volatility, 1) THEN Times(one, 90)
                     ELSE one
              [] rules = "breakout" ->
                     LET a == IF VolatilityAbove(volatility, 3)
                              THEN Times(one, 95) ELSE one
                     IN IF Abs(volume_change) > 100 THEN Times(a, 90) ELSE a
              [] rules = "swing" ->
                     IF VolatilityAtLeast(volatility, 2) /\ VolatilityAtMost(volatility, 4)
                     THEN Times(one, 95) ELSE Times(one, 110)
              [] rules = "trend" ->
                     IF VolatilityBelow(volatility, 2) THEN Times(one, 110)
                     ELSE IF volume_change > 50 THEN Times(one, 95)
                     ELSE one
              [] rules = "news" ->
                     IF Abs(volume_change) > 200 THEN Times(one, 90)
                     ELSE IF VolatilityAbove(volatility, 5) THEN Times(one, 95)
                     ELSE one
              [] rules = "algorithmic" ->
                     IF VolatilityAtLeast(volatility, 1) /\ VolatilityAtMost(volatility, 3)
                     THEN Times(one, 95)
                     ELSE IF Abs(volume_change) > 150 THEN Times(one, 110)
                     ELSE one
              [] OTHER -> one
        base_adjustment ==
            IF Abs(volume_change) > 50
            THEN Times(strategy, IF volume_change > 0 THEN 105 ELSE 95)
            ELSE strategy
    IN Max(500, Min(1500, base_adjustment))

\* base_strategy.py:296-311, with risk = <<stop_loss, take_profit>>.
base_apply_risk_bounds(adjustment, risk) ==
    LET stop_loss == risk[1]
        take_profit == risk[2]
        adjusted == IF stop_loss # 0 /\ take_profit # 0
                    THEN IF take_profit < 2 * stop_loss THEN Times(adjustment, 110)
                         ELSE IF take_profit > 5 * stop_loss THEN Times(adjustment, 90)
                         ELSE adjustment
                    ELSE adjustment
    IN Max(500, Min(2000, adjusted))

\* base_strategy.py:209-217: what _suggest_optimal_threshold returns for the
\* adjustments of the tokens and the jitter drawn.
base_suggested_threshold(current, adjustments, jitter) ==
    LET avg_adjustment == IF adjustments # <<>>
                          THEN SumSeq(adjustments) \div Len(adjustments)
                          ELSE 1000
        new_threshold == (current * avg_adjustment) \div 1000
        base_threshold == Max(1000, Min(5000, new_threshold))
    IN Times(base_threshold, jitter)

\* SafeBounds that lets every suggestion through.
NoBounds(suggested) == suggested

\* base_strategy.py:151, max(1.0, min(5.0, ...))
SafeBounds(suggested) == Max(1000, Min(5000, suggested))

\* ------------------------------------------------------ indicator actions
\* The price source returns one more sample for the token.  An agent is run
\* once on each history: signal holds what it was built with and its result.
NewSample(p) ==
    /\ Len(prices) < MaxLen
    /\ prices' = Append(prices, p)
    /\ signal' = [agent |-> "none"]
    /\ UNCHANGED <<mgrVars, agentVars>>

\* A MomentumStrategyAgent built with these parameters (momentum.py:9-20)
\* generates its signal for the token.
MomentumSignals(short_term_minutes, long_term_minutes, threshold) ==
    /\ signal.agent = "none"
    /\ signal' = [agent |-> "momentum",
                  short_term_periods |-> short_term_minutes \div 5,
                  long_term_periods |-> long_term_minutes \div 5,
                  threshold |-> threshold,
                  result |-> momentum_generate_trading_signals(
                      prices, short_term_minutes, long_term_minutes, threshold)]
    /\ UNCHANGED <<prices, mgrVars, agentVars>>

\* A BreakoutStrategyAgent (breakout.py:8-28) generates its signal
\* (breakout.py:65-73).
BreakoutSignals(lookback_periods, breakout_threshold, confirmation_periods) ==
    /\ signal.agent = "none"
    /\ signal' = [agent |-> "breakout",
                  lookback_periods |-> lookback_periods,
                  breakout_threshold |-> breakout_threshold,
                  confirmation_periods |-> confirmation_periods,
                  result |-> breakout_detect_breakout(
                      prices, lookback_periods, breakout_threshold,
                      confirmation_periods)]
    /\ UNCHANGED <<prices, mgrVars, agentVars>>

\* A SwingTradingAgent (swing.py:8-31) generates its signal (swing.py:66-74).
\* volatility records the volatility it has computed on the way.
SwingSignals(lookback_periods, volatility_window, support_resistance_periods, swing_threshold) ==
    /\ signal.agent = "none"
    /\ signal' = [agent |-> "swing",
                  lookback_periods |-> lookback_periods,
                  volatility_window |-> volatility_window,
                  support_resistance_periods |-> support_resistance_periods,
                  swing_threshold |-> swing_threshold,
                  volatility |-> swing_calculate_volatility(prices, volatility_window),
                  result |-> swing_detect_swing_opportunity(
                      prices, lookback_periods, volatility_window,
                      support_resistance_periods, swing_threshold)]
    /\ UNCHANGED <<prices, mgrVars, agentVars>>

\* A MeanReversionStrategyAgent (mean_reversion.py:8-17) generates its signal
\* (mean_reversion.py:52-73).
MeanReversionSignals(lookback_periods, std_dev_threshold) ==
    /\ signal.agent = "none"
    /\ signal' = [agent |-> "mean_reversion",
                  lookback_periods |-> lookback_periods,
                  std_dev_threshold |-> std_dev_threshold,
                  result |-> mean_reversion_generate_trading_signals(
                      prices, lookback_periods, std_dev_threshold)]
    /\ UNCHANGED <<prices, mgrVars, agentVars>>

\* A TrendFollowingAgent cfg generates its signal (trend.py:78-94).  votes
\* records what its three indicators say of the history.
TrendSignals(cfg) ==
    /\ signal.agent = "none"
    /\ signal' = [agent |-> "trend", cfg |-> cfg,
                  long_ma_periods |-> cfg.long_ma_periods,
                  votes |-> trend_votes(prices, cfg),
                  result |-> trend_analyze_trend(prices, cfg)]
    /\ UNCHANGED <<prices, mgrVars, agentVars>>

\* A TrendFollowingAgent cfg analyzes the market conditions (trend.py:46-70).
TrendConditions(cfg) ==
    /\ signal.agent = "none"
    /\ signal' = [agent |-> "trend_conditions", cfg |-> cfg,
                  result |-> trend_analyze_market_conditions(prices, cfg)]
    /\ UNCHANGED <<prices, mgrVars, agentVars>>

\* An AlgorithmicTradingAgent cfg generates its signal (algorithmic.py:70-87)
\* with what the metrics source returns.  scores records the scores it has
\* computed on the way.
AlgorithmicSignals(cfg, metrics) ==
    /\ signal.agent = "none"
    /\ signal' = [agent |-> "algorithmic", cfg |-> cfg,
                  lacking |-> MetricsFields \ DOMAIN metrics,
                  volume_profile |-> IF Len(prices) < np_max(cfg.ma_periods)
                                     THEN "none"
                                     ELSE algorithmic_analyze_volume_profile(metrics),
                  scores |-> IF Len(prices) < np_max(cfg.ma_periods)
                             THEN [kind |-> "none"]
                             ELSE algorithmic_scores(prices, cfg, metrics),
                  result |-> algorithmic_generate_algorithmic_signal(
                                 prices, cfg, metrics)]
    /\ UNCHANGED <<prices, mgrVars, agentVars>>

\* A NewsEventTradingAgent cfg generates its signal (news.py:72-94) with the
\* metrics the source returns.  metrics records them, volume_surge and
\* sentiment what the agent makes of them.
NewsSignals(cfg, metrics) ==
    /\ signal.agent = "none"
    /\ signal' = [agent |-> "news", cfg |-> cfg,
                  metrics |-> metrics,
                  lacking |-> MetricsFields \ DOMAIN metrics,
                  volume_surge |-> news_calculate_volume_surge(metrics),
                  sentiment |-> IF news_sentiment_raises(metrics) THEN "AttributeError"
                                ELSE news_analyze_market_sentiment(metrics),
                  result |-> news_generate_trading_signals(prices, cfg, metrics)]
    /\ UNCHANGED <<prices, mgrVars, agentVars>>

\* ------------------------------------------ a cycle over the tokens
\* What tools["GetAlchemyPriceHistoryBySymbol"].forward(...) does for a token:
\* it raises, or it returns a history (momentum.py:55-62, breakout.py:65-72).
FetchFailed == [kind |-> "fail"]

Fetched(ps) == [kind |-> "prices", data |-> ps]

FetchResults == {FetchFailed} \cup {Fetched(ps) : ps \in SeqsUpTo(PriceValues, MaxFetched)}

\* One fetch for each token of the strategy.
TokenFetches == [DOMAIN ConfiguredTokens -> FetchResults]

\* The report for a list of per-token outcomes that hold no raise
\* (momentum.py:71-81, breakout.py:75-87): the signals in the order of the
\* tokens, none of them being "No trading signals generated".
SignalsReport(tokens, outs) ==
    [kind |-> "report",
     signals |-> SelectSeq(
         [i \in DOMAIN tokens |->
             [token |-> tokens[i],
              direction |-> IF outs[i].kind = "signal"
                            THEN outs[i].direction ELSE "none"]],
         LAMBDA s : s.direction # "none")]

\* The for loop of generate_trading_signals (momentum.py:54-81,
\* breakout.py:64-87) over the per-token outcomes: nothing in the loop or
\* around it catches, so the first raise ends the call.
token_loop(tokens, outs) ==
    IF \E i \in DOMAIN outs : outs[i].kind = "raise"
    THEN LET first == CHOOSE i \in DOMAIN outs :
                          /\ outs[i].kind = "raise"
                          /\ \A j \in 1..(i - 1) : outs[j].kind # "raise"
         IN Raised(outs[first].exc)
    ELSE SignalsReport(tokens, outs)

\* momentum.py:54-70 for one token
momentum_token_outcome(fetch, short_term_minutes, long_term_minutes, threshold) ==
    IF fetch.kind = "fail" THEN Raised("FetchError")
    ELSE momentum_generate_trading_signals(
             fetch.data, short_term_minutes, long_term_minutes, threshold)

\* breakout.py:64-73 for one token
breakout_token_outcome(fetch, lookback_periods, breakout_threshold, confirmation_periods) ==
    IF fetch.kind = "fail" THEN Raised("FetchError")
    ELSE breakout_detect_breakout(
             fetch.data, lookback_periods, breakout_threshold, confirmation_periods)

\* MomentumStrategyAgent.generate_trading_signals (momentum.py:50-81) of an
\* agent with short_term_minutes = long_term_minutes = 10 over the configured
\* tokens; fetched is what the price source does for each of them, outs the
\* outcome for each token taken alone.
MomentumCycle(threshold, fetched) ==
    /\ cycle.agent = "none"
    /\ LET outs == [i \in DOMAIN ConfiguredTokens |->
                       momentum_token_outcome(fetched[i], 10, 10, threshold)]
       IN cycle' = [agent |-> "momentum", fetched |-> fetched, outs |-> outs,
                    result |-> token_loop(ConfiguredTokens, outs)]
    /\ UNCHANGED <<mgrVars, indVars, self_threshold, opt>>

\* BreakoutStrategyAgent.generate_trading_signals (breakout.py:60-87) of an
\* agent with lookback_periods = confirmation_periods = 1.
BreakoutCycle(breakout_threshold, fetched) ==
    /\ cycle.agent = "none"
    /\ LET outs == [i \in DOMAIN ConfiguredTokens |->
                       breakout_token_outcome(fetched[i], 1, breakout_threshold, 1)]
       IN cycle' = [agent |-> "breakout", fetched |-> fetched, outs |-> outs,
                    result |-> token_loop(ConfiguredTokens, outs)]
    /\ UNCHANGED <<mgrVars, indVars, self_threshold, opt>>

\* --------------------------------------------------- optimizer actions
\* A BaseStrategyAgent as its constructor leaves it without arguments
\* (base_strategy.py:51-62), not yet optimizing.  calls and returned count
\* the calls of optimize_parameters begun and returned, suggested is what
\* _suggest_optimal_threshold returned last, outcomes what became of the
\* metrics fetch for each token of the running or the last call.
DefaultAgent ==
    [pc |-> "idle", constructed |-> FALSE, rules |-> "", risk |-> <<0, 0>>,
     tokens |-> <<>>, i |-> 0, volatility |-> ZeroVolatility, adjustments |-> <<>>,
     calls |-> 0, returned |-> 0, suggested |-> 0, outcomes |-> <<>>]

\* A strategy agent is constructed with its strategy and its threshold
\* (base_strategy.py:51-62, momentum.py:20).
ConstructAgent(agent) ==
    /\ ~opt.constructed
    /\ self_threshold' = agent.threshold
    /\ opt' = [opt EXCEPT !.constructed = TRUE, !.rules = agent.rules,
                          !.risk = agent.risk, !.tokens = agent.tokens]
    /\ UNCHANGED <<mgrVars, indVars, cycle>>

\* base_strategy.py:209-217 and 151-152: the loop over the tokens is through,
\* _suggest_optimal_threshold returns and optimize_parameters stores the
\* suggestion within its bounds.  <<self.threshold, opt>> afterwards.
OptReturned(o, adjustments, jitter) ==
    LET suggested == base_suggested_threshold(self_threshold, adjustments, jitter)
    IN <<SafeBounds(suggested),
         [o EXCEPT !.pc = "idle", !.i = 0, !.volatility = ZeroVolatility,
                   !.adjustments = adjustments, !.returned = @ + 1,
                   !.suggested = suggested]>>

\* optimize_parameters is called (base_strategy.py:149-164): up to the first
\* await of the price history, or to the return when there is no token.
OptStart(jitter) ==
    /\ opt.constructed
    /\ opt.pc \in {"idle", "raised"}
    /\ opt.calls < MaxOptCalls
    /\ LET o == [opt EXCEPT !.calls = @ + 1, !.adjustments = <<>>, !.outcomes = <<>>]
       IN IF opt.tokens = <<>>
          THEN /\ self_threshold' = OptReturned(o, <<>>, jitter)[1]
               /\ opt' = OptReturned(o, <<>>, jitter)[2]
          ELSE /\ opt' = [o EXCEPT !.pc = "prices", !.i = 1]
               /\ UNCHANGED self_threshold
    /\ UNCHANGED <<mgrVars, indVars, cycle>>

\* base_strategy.py:167-180: the price history of the token arrives; up to
\* the await of the metrics, or to the ZeroDivisionError of line 177.
OptPricesReturn(ps) ==
    /\ opt.pc = "prices"
    /\ LET volatility == base_volatility(ps)
       IN opt' = IF volatility.kind = "raise"
                 THEN [opt EXCEPT !.pc = "raised", !.i = 0]
                 ELSE [opt EXCEPT !.pc = "metrics", !.volatility = volatility]
    /\ UNCHANGED <<self_threshold, mgrVars, indVars, cycle>>

\* base_strategy.py:167: the price source raises, outside any try.
OptPricesFail ==
    /\ opt.pc = "prices"
    /\ opt' = [opt EXCEPT !.pc = "raised", !.i = 0]
    /\ UNCHANGED <<self_threshold, mgrVars, indVars, cycle>>

\* base_strategy.py:183-217: the await of the metrics is over, with the
\* market data or with NoMetrics when it raised; the token's adjustment is
\* appended, and the loop goes on to the next token's price history or the
\* call returns.  <<self.threshold, opt>> afterwards.
OptAfterMetrics(market_data, jitter) ==
    LET volume_change == MetricsVolumeChange(market_data)
        strategy_adjustment == base_calculate_strategy_adjustment(
                                   opt.volatility, volume_change, opt.rules)
        risk_bounds == base_apply_risk_bounds(strategy_adjustment, opt.risk)
        adjustments == Append(opt.adjustments, risk_bounds)
        o == [opt EXCEPT !.outcomes =
                 Append(@, IF market_data = NoMetrics THEN "failed" ELSE "ok")]
    IN IF opt.i < Len(opt.tokens)
       THEN <<self_threshold,
              [o EXCEPT !.pc = "prices", !.i = @ + 1, !.adjustments = adjustments,
                        !.volatility = ZeroVolatility]>>
       ELSE OptReturned(o, adjustments, jitter)

OptMetricsReturn(volume_change, jitter) ==
    /\ opt.pc = "metrics"
    /\ LET after == OptAfterMetrics(
                        [kind |-> "data", volume_change_24h |-> volume_change], jitter)
       IN self_threshold' = after[1] /\ opt' = after[2]
    /\ UNCHANGED <<mgrVars, indVars, cycle>>

OptMetricsFail(jitter) ==
    /\ opt.pc = "metrics"
    /\ LET after == OptAfterMetrics(NoMetrics, jitter)
       IN self_threshold' = after[1] /\ opt' = after[2]
    /\ UNCHANGED <<mgrVars, indVars, cycle>>

\* The registry of agents as agent_types.py configures them
\* (agent_types.py:17, 41): every agent under its own name.
ConfiguredRegistry ==
    [k \in StrategyKeys |-> IF k = "momentum" THEN "eth_momentum" ELSE "eth_breakout"]

\* The registries __init__ can be given: any configuration name per key.
Registries == [StrategyKeys -> ConfigNames]

Init ==
    /\ constructed = FALSE
    /\ strategies = <<>>
    /\ active_strategies = <<>>
    /\ strategy_responses = <<>>
    /\ pc = [c \in Calls |-> "idle"]
    /\ strategies_to_activate = [c \in Calls |-> <<>>]
    /\ idx = [c \in Calls |-> 0]
    /\ report = [c \in Calls |-> <<>>]
    /\ error = [c \in Calls |-> "none"]
    /\ policyCalls = [c \in Calls |-> 0]
    /\ seen = [c \in Calls |-> {}]
    /\ activated = [c \in Calls |-> {}]
    /\ skipped = [c \in Calls |-> {}]
    /\ evalCount = [k \in StrategyKeys |-> 0]
    /\ prices = <<>>
    /\ signal = [agent |-> "none"]
    /\ self_threshold = 1000
    /\ opt = DefaultAgent
    /\ cycle = [agent |-> "none"]

CallsNext ==
    \/ \E c \in Calls : Start(c)
    \/ \E c \in Calls : AskPolicy(c)
    \/ \E c \in Calls, text \in PolicyTexts : PolicyReturns(c, text)
    \/ \E c \in Calls, response \in Responses : EvalReturns(c, response)
    \/ \E c \in Calls : EvalRaises(c)
    \/ \E c \in Calls : SummaryReturns(c)

Next ==
    \/ Construct(ConfiguredRegistry)
    \/ CallsNext

\* The manager over the configured registry: invocations of start on one
\* StrategyManager.
Spec == Init /\ [][Next]_vars

CtorNext ==
    \/ \E r \in Registries : Construct(r)
    \/ CallsNext

\* The manager over any registry its constructor is given.
CtorSpec == Init /\ [][CtorNext]_vars

IndNext ==
    \/ \E p \in PriceValues : NewSample(p)
    \/ \E s \in Periods, l \in Periods, t \in Thresholds \cup {0} :
           MomentumSignals(5 * s, 5 * l, t)
    \/ \E l \in Periods, t \in Thresholds, k \in Periods : BreakoutSignals(l, t, k)
    \/ \E l \in Periods, v \in {1, MaxPeriod}, r \in Periods, t \in Thresholds :
           SwingSignals(l, v, r, t)
    \/ \E l \in Periods, t \in StdDevThresholds : MeanReversionSignals(l, t)
    \/ \E cfg \in RsiConfigs : TrendConditions(cfg)

\* The strategy agents: signal generation over a growing price history.
IndSpec == Init /\ [][IndNext]_vars

AlgoNext ==
    \/ \E p \in PriceValues : NewSample(p)
    \/ \E cfg \in AlgorithmicConfigs, metrics \in VolumeSnapshots \cup {NoMetrics} :
           AlgorithmicSignals(cfg, metrics)

\* The algorithmic agent over a growing price history.
AlgoSpec == Init /\ [][AlgoNext]_vars

NewsNext ==
    \/ \E p \in PriceValues : NewSample(p)
    \/ \E cfg \in NewsConfigs, metrics \in MetricsSnapshots : NewsSignals(cfg, metrics)

\* The news agent over a growing price history.
NewsSpec == Init /\ [][NewsNext]_vars

OptNext ==
    \/ \E agent \in OptimizedAgents : ConstructAgent(agent)
    \/ \E jitter \in Jitters : OptStart(jitter)
    \/ \E ps \in OptHistories : OptPricesReturn(ps)
    \/ OptPricesFail
    \/ \E v \in VolumeChanges, jitter \in Jitters : OptMetricsReturn(v, jitter)
    \/ \E jitter \in Jitters : OptMetricsFail(jitter)

\* One strategy agent and the calls of its optimize_parameters.
OptSpec == Init /\ [][OptNext]_vars

CycleNext ==
    \/ \E threshold \in Thresholds, fetched \in TokenFetches :
           MomentumCycle(threshold, fetched)
    \/ \E breakout_threshold \in Thresholds, fetched \in TokenFetches :
           BreakoutCycle(breakout_threshold, fetched)

\* One cycle of generate_trading_signals over the tokens of the strategy.
CycleSpec == Init /\ [][CycleNext]_vars

MetricsNext ==
    \/ \E p \in PriceValues : NewSample(p)
    \/ \E cfg \in AlgorithmicConfigs, metrics \in PartialSnapshots \cup {NoMetrics} :
           AlgorithmicSignals(cfg, metrics)
    \/ \E cfg \in SurgeConfigs, metrics \in NewsSnapshots \cup {NoMetrics} :
           NewsSignals(cfg, metrics)

\* The agents that consume metrics, with a metrics source that fails or
\* returns a snapshot that lacks a field.
MetricsSpec == Init /\ [][MetricsNext]_vars

TrendNext ==
    \/ \E p \in PriceValues : NewSample(p)
    \/ \E cfg \in TrendConfigs : TrendSignals(cfg)
    \/ \E cfg \in RsiConfigs : TrendConditions(cfg)

\* The trend following agent over a growing price history.
TrendSpec == Init /\ [][TrendNext]_vars

\* ------------------------------------------------------ claims: manager
\* The name a call is evaluating or about to look at.
Current(c) == strategies_to_activate[c][idx[c]]

\* The calls whose evaluation of strategy k is in flight.
InFlight(k) == {c \in Calls : pc[c] = "evaluating" /\ Current(c) = k}

ReportBuilt(c) == pc[c] \in {"summary", "done"}

\* The position of a key in a sequence of keys that holds it.
Position(keys, k) == CHOOSE i \in DOMAIN keys : keys[i] = k

C2_EvaluationFailureContained ==
    \A c \in Calls : error[c] # "EvaluationError"

\* C3: activation is idempotent.  A strategy's evaluation is begun at most
\* once, and exactly once for the strategies in the active set; a start that
\* got through its list leaves every name of the list active; and an
\* activation step whose names are all active already changes neither
\* active_strategies nor strategy_responses and begins no evaluation.
C3_Counts ==
    /\ \A k \in StrategyKeys :
          /\ evalCount[k] <= 1
          /\ k \in Range(active_strategies) <=> evalCount[k] = 1
    /\ \A c \in Calls :
          ReportBuilt(c) =>
              Range(strategies_to_activate[c]) \subseteq Range(active_strategies)

C3_RepeatedStep ==
    \A c \in Calls :
        (/\ pc[c] = "policy"
         /\ pc'[c] # "policy"
         /\ Range(strategies_to_activate'[c]) \subseteq Range(active_strategies))
        => /\ active_strategies' = active_strategies
           /\ strategy_responses' = strategy_responses
           /\ evalCount' = evalCount
           /\ pc'[c] = "summary"

C3_ActivationIdempotent == [](C3_Counts) /\ [][C3_RepeatedStep]_vars

\* C3's case: a start whose policy named strategies that were all active
\* already has gone through its list without activating anything.
C3_Witness ==
    \E c \in Calls :
        /\ ReportBuilt(c)
        /\ strategies_to_activate[c] # <<>>
        /\ activated[c] = {}
        /\ active_strategies # <<>>

\* C4: the combined report lists the responses in the order the strategies
\* were activated, whatever the order in which the evaluations completed.
C4_ReportInActivationOrder ==
    \A c \in Calls :
        ReportBuilt(c) =>
            \A i \in DOMAIN report[c], j \in DOMAIN report[c] :
                i < j => Position(active_strategies, report[c][i][1])
                         < Position(active_strategies, report[c][j][1])

CallStep(c) ==
    \/ AskPolicy(c)
    \/ \E text \in PolicyTexts : PolicyReturns(c, text)
    \/ \E response \in Responses : EvalReturns(c, response)
    \/ EvalRaises(c)
    \/ SummaryReturns(c)

\* C5 as amended: the activation is a single pass.  The policy answers once
\* per start, before the loop; the loop position is within the list and only
\* moves forward, by at least one per evaluation; and a start that has not
\* returned or raised always has a next step.
C5_SinglePass ==
    \A c \in Calls :
        /\ policyCalls[c] = (IF pc[c] \in {"idle", "base", "policy"} THEN 0 ELSE 1)
        /\ idx[c] <= Len(strategies_to_activate[c]) + 1
        /\ Cardinality(activated[c]) <= Len(strategies_to_activate[c])
        /\ pc[c] \in {"base", "policy", "evaluating", "summary"} => ENABLED CallStep(c)

C5_Forward ==
    \A c \in Calls :
        /\ idx'[c] >= idx[c]
        /\ (pc[c] = "evaluating" /\ pc'[c] \notin {"evaluating", "raised"})
               => idx'[c] > idx[c]

C6_UniqueConfigNames ==
    constructed =>
        \A k1 \in DOMAIN strategies, k2 \in DOMAIN strategies :
            k1 # k2 => strategies[k1] # strategies[k2]

\* The strategies that were active when the policy's answer to call c arrived
\* and that the answer does not name.
Removed(c) == seen[c] \ Range(strategies_to_activate[c])

C7_StaysActive ==
    \A c \in Calls :
        /\ pc[c] \notin {"idle", "base", "policy"} =>
               seen[c] \subseteq Range(active_strategies)
        /\ pc[c] = "evaluating" =>
               ENABLED (\E response \in Responses : EvalReturns(c, response))

C7_Monotone ==
    /\ Range(active_strategies) \subseteq Range(active_strategies')
    /\ DictKeys(strategy_responses) \subseteq DictKeys(strategy_responses')
    /\ \A c \in Calls :
          (pc[c] = "evaluating" /\ pc'[c] \notin {"evaluating", "raised"})
              => Current(c) \in DictKeys(strategy_responses')

Larger(a, b) == IF a > b THEN a ELSE b

\* The samples an agent's signal rule needs: its largest window.
SamplesNeeded(sig) ==
    CASE sig.agent = "momentum" ->
             Larger(sig.short_term_periods, sig.long_term_periods)
      [] sig.agent = "breakout" -> sig.lookback_periods + sig.confirmation_periods
      [] sig.agent = "swing" ->
             Larger(sig.lookback_periods, sig.support_resistance_periods)
      [] sig.agent = "mean_reversion" -> sig.lookback_periods
      [] sig.agent = "trend" -> sig.long_ma_periods
      [] sig.agent = "trend_conditions" -> 0

\* C8: on a price history with fewer samples than a window the agent needs,
\* signal generation gives the neutral result (no signal) and does not raise.
C8_InsufficientHistoryNeutral ==
    (signal.agent # "none" /\ Len(prices) < SamplesNeeded(signal))
        => signal.result = NoSignal

\* The change of the last price against the price k samples from the end,
\* as <<difference, earlier price>>.
ChangeOver(ps, k) == <<ps[Len(ps)] - ps[Len(ps) - k + 1], ps[Len(ps) - k + 1]>>

\* C9: momentum fires iff the short-term and the long-term percentage change
\* both exceed the threshold (in magnitude) and have the same sign; a fired
\* signal is Upward iff the short-term change is positive.
C9_MomentumFiresIffSameSign ==
    (signal.agent = "momentum" /\ signal.result.kind # "raise")
        => IF Len(prices) < signal.long_term_periods
           THEN signal.result = NoSignal
           ELSE LET s == ChangeOver(prices, signal.short_term_periods)
                    l == ChangeOver(prices, signal.long_term_periods)
                    exceeds(x) == Abs(x[1]) * 100 > signal.threshold * x[2]
                    sameSign == \/ s[1] > 0 /\ l[1] > 0
                                \/ s[1] < 0 /\ l[1] < 0
                IN signal.result =
                       IF exceeds(s) /\ exceeds(l) /\ sameSign
                       THEN [kind |-> "signal",
                             direction |-> IF s[1] > 0 THEN "Upward" ELSE "Downward"]
                       ELSE NoSignal

\* What C10 says the breakout rule gives on history ps: with n samples, the
\* levels are the least and the greatest of the lookback samples that come
\* right before the last `confirmation` samples, and the excursion is that of
\* the last sample from the level, in percent of the level.
BreakoutExpected(ps, lookback, threshold, confirmation) ==
    LET n == Len(ps)
        before == {ps[i] : i \in (n - confirmation - lookback + 1)..(n - confirmation)}
        confirm == {ps[i] : i \in (n - confirmation + 1)..n}
        support == CHOOSE x \in before : \A y \in before : x <= y
        resistance == CHOOSE x \in before : \A y \in before : y <= x
    IN IF n < lookback + confirmation THEN NoSignal
       ELSE IF /\ \A p \in confirm : p > resistance
               /\ (ps[n] - resistance) * 100 > threshold * resistance
       THEN [kind |-> "signal", direction |-> "Upward", level |-> resistance]
       ELSE IF /\ \A p \in confirm : p < support
               /\ (support - ps[n]) * 100 > threshold * support
       THEN [kind |-> "signal", direction |-> "Downward", level |-> support]
       ELSE NoSignal

\* C10: breakout detection gives what the rule says, for every history and
\* every parameter choice; and on the two examples (prices times 10): a flat
\* lookback of 100 followed by 110, 110, 110 at threshold 5 fires Upward at
\* level 100, followed by 102, 102, 102 it does not fire.
C10_BreakoutRule ==
    /\ signal.agent = "breakout" =>
           signal.result = BreakoutExpected(prices, signal.lookback_periods,
                                            signal.breakout_threshold,
                                            signal.confirmation_periods)
    /\ breakout_detect_breakout(<<100, 100, 100, 110, 110, 110>>, 3, 5, 3)
           = [kind |-> "signal", direction |-> "Upward", level |-> 100]
    /\ breakout_detect_breakout(<<100, 100, 100, 102, 102, 102>>, 3, 5, 3) = NoSignal

\* C10's case: a flat lookback of 100 and a confirmation window of 110s at
\* threshold 5 has fired Upward at level 100.
C10_Witness ==
    /\ signal.agent = "breakout"
    /\ signal.breakout_threshold = 5
    /\ signal.lookback_periods >= 2
    /\ signal.confirmation_periods >= 2
    /\ prices = <<100, 100, 110, 110>>
    /\ signal.result = [kind |-> "signal", direction |-> "Upward", level |-> 100]

\* What C11 says of the mean reversion rule on history ps: over the last
\* `lookback` samples with sum S, the deviations n * x - S are n times the
\* distances from the mean, the standard deviation squared is the sum of the
\* squared distances over n, and so z * z is n * d * d over the sum of the
\* squared deviations, where d is the deviation of the last sample.
MeanReversionExpected(ps, lookback, std_dev_threshold) ==
    LET len == Len(ps)
        n == lookback
        window == [i \in 1..n |-> ps[len - n + i]]
        S == SumSeq(window)
        deviations == [i \in 1..n |-> n * window[i] - S]
        SS == SumSeq(SquareSeq(deviations))
        d == deviations[n]
    IN IF len < lookback \/ SS = 0 THEN NoSignal
       ELSE IF n * d * d > std_dev_threshold * std_dev_threshold * SS
       THEN [kind |-> "signal", direction |-> IF d < 0 THEN "Buy" ELSE "Sell"]
       ELSE NoSignal

\* C11: mean reversion fires iff |z| > std_dev_threshold, with z the distance
\* of the last sample from the mean of the last lookback_periods samples in
\* standard deviations; it is Buy for z < 0 and Sell for z > 0; with fewer
\* samples than the lookback or a standard deviation of 0 nothing fires,
\* whatever the (non-negative) threshold.
C11_MeanReversionRule ==
    signal.agent = "mean_reversion" =>
        signal.result = MeanReversionExpected(prices, signal.lookback_periods,
                                              signal.std_dev_threshold)

\* C11's case: a Buy has fired at a threshold of one standard deviation.
C11_Witness ==
    /\ signal.agent = "mean_reversion"
    /\ signal.std_dev_threshold = 1
    /\ signal.result = [kind |-> "signal", direction |-> "Buy"]

\* C12: trend following fires iff the bullish and the bearish votes of the
\* three indicators differ by at least 2; a fired signal is Upward iff the
\* bullish votes outnumber the bearish, and Strong iff the gap is 3, Moderate
\* otherwise; with fewer than long_ma_periods samples nothing fires.
C12_TrendVoteRule ==
    signal.agent = "trend" =>
        LET bullish == Cardinality({i \in 1..3 :
                           signal.votes[i] \in {"Bullish", "Oversold"}})
            bearish == Cardinality({i \in 1..3 :
                           signal.votes[i] \in {"Bearish", "Overbought"}})
            gap == IF bullish > bearish THEN bullish - bearish ELSE bearish - bullish
            fired == signal.result.kind = "signal"
        IN IF Len(prices) < signal.cfg.long_ma_periods THEN ~fired
           ELSE /\ fired <=> gap >= 2
                /\ fired =>
                     /\ signal.result.direction \in {"Upward", "Downward"}
                     /\ signal.result.direction = "Upward" <=> bullish > bearish
                     /\ signal.result.strength \in {"Strong", "Moderate"}
                     /\ signal.result.strength = "Strong" <=> gap = 3

\* C12's case: two bearish votes and a neutral RSI have fired a Moderate
\* Downward signal.
C12_Witness ==
    /\ signal.agent = "trend"
    /\ signal.votes = <<"Bearish", "Neutral", "Bearish">>
    /\ signal.result = [kind |-> "signal", direction |-> "Downward",
                        strength |-> "Moderate"]

\* The last k + 1 samples of ps rise (dir = 1) or fall (dir = -1) strictly.
StrictlyMonotone(ps, k, dir) ==
    \A i \in (Len(ps) - k)..(Len(ps) - 1) : dir * (ps[i + 1] - ps[i]) > 0

\* C13: over at least rsi_periods + 1 samples the RSI is 100 when the prices
\* are strictly increasing and 0 when they are strictly decreasing.
C13_RsiOnMonotonePrices ==
    (/\ signal.agent = "trend_conditions"
     /\ Len(prices) >= signal.cfg.rsi_periods + 1)
        => LET rsi == signal.result.rsi
           IN /\ StrictlyMonotone(prices, signal.cfg.rsi_periods, 1)
                     => rsi[1] = 100 * rsi[2]
              /\ StrictlyMonotone(prices, signal.cfg.rsi_periods, -1)
                     => rsi[1] = 0

\* C13's case: the RSI of three strictly decreasing samples over two periods
\* has been computed.
C13_Witness ==
    /\ signal.agent = "trend_conditions"
    /\ signal.cfg.rsi_periods = 2
    /\ prices = <<110, 102, 100>>
    /\ signal.result.rsi[1] = 0

\* C14: a division by zero gives the indicator's neutral value and no error:
\* the RSI is 50 when the average loss is zero, the z-score is 0 (so nothing
\* fires) when the standard deviation is zero, and a percentage change
\* against an earlier sample of price 0 does not raise.
C14_DivisionsGuarded ==
    /\ (/\ signal.agent = "trend_conditions"
        /\ Len(prices) >= signal.cfg.rsi_periods + 1
        /\ \A i \in (Len(prices) - signal.cfg.rsi_periods)..(Len(prices) - 1) :
               prices[i + 1] >= prices[i])
           => signal.result.rsi = <<50, 1>>
    /\ (/\ signal.agent = "mean_reversion"
        /\ Len(prices) >= signal.lookback_periods
        /\ \A i \in (Len(prices) - signal.lookback_periods + 1)..Len(prices) :
               prices[i] = prices[Len(prices)])
           => signal.result = NoSignal
    /\ signal.agent = "momentum"
           => signal.result # Raised("ZeroDivisionError")

\* 10 * k * m times a score of the algorithmic agent, for averages count k
\* and momentum denominator m.
Scaled(score, k, m) == score.num * ((10 * k * m) \div score.den)

\* C15: every sub-score of the algorithmic signal lies in [-1, 1]; the total
\* is their sum with the weights 0.4, 0.3, 0.2, 0.1 and lies in [-1, 1]; the
\* probability (score + 1) * 50 lies in [0, 100]; the signal fires iff
\* |score| > signal_threshold / 10, Upward iff score > 0, so that a fired
\* Upward has a probability above 50 and a fired Downward one below 50.
C15_CompositeScore ==
    (signal.agent = "algorithmic" /\ signal.scores.kind = "scores") =>
        LET sc == signal.scores
            k == sc.ma_consensus.den
            InUnit(x) == x.kind = "fin" /\ -x.den <= x.num /\ x.num <= x.den
            fired == signal.result.kind = "signal"
        IN /\ InUnit(sc.ma_consensus)
           /\ InUnit(sc.momentum_score)
           /\ sc.vol_score \in -1..1
           /\ sc.volume_score \in -1..1
           /\ InUnit(sc.total_score)
           /\ LET m == sc.momentum_score.den
                  total == sc.total_score
              IN /\ Scaled(total, k, m) * 10
                        = 4 * Scaled(sc.ma_consensus, k, m)
                            + 3 * Scaled(sc.momentum_score, k, m)
                            + 2 * sc.vol_score * 10 * k * m
                            + 1 * sc.volume_score * 10 * k * m
                 /\ fired <=> 10 * Abs(total.num) > signal.cfg.signal_threshold * total.den
                 /\ fired =>
                      LET pr == signal.result.probability
                      IN /\ signal.result.direction
                                = IF total.num > 0 THEN "Upward" ELSE "Downward"
                         /\ LET f == total.den \div pr.den
                            IN /\ total.den = f * pr.den
                               /\ pr.num * f = (total.num + total.den) * 50
                         /\ 0 <= pr.num /\ pr.num <= 100 * pr.den
                         /\ signal.result.direction = "Upward" => pr.num > 50 * pr.den
                         /\ signal.result.direction = "Downward" => pr.num < 50 * pr.den

\* C16: the news signal fires iff the price change (in magnitude, against
\* the sample sentiment_periods back) exceeds price_impact_threshold and the
\* volume surge exceeds volume_surge_threshold; its confidence is High iff
\* the sentiment agrees with the direction of the price (Upward with a
\* positive, Downward with a negative sentiment), Medium otherwise.
C16_NewsRule ==
    (signal.agent = "news" /\ signal.result.kind # "raise") =>
        LET fired == signal.result.kind = "signal"
            sp == signal.cfg.sentiment_periods
        IN IF Len(prices) < sp THEN ~fired
           ELSE LET change == ChangeOver(prices, sp)
                    up == change[1] > 0
                    positive == signal.sentiment \in {"Positive", "Very Positive"}
                    negative == signal.sentiment \in {"Negative", "Very Negative"}
                IN /\ fired <=>
                        /\ Abs(change[1]) * 100
                               > signal.cfg.price_impact_threshold * change[2]
                        /\ signal.volume_surge.num
                               > signal.cfg.volume_surge_threshold * signal.volume_surge.den
                   /\ fired =>
                        /\ signal.result.direction = IF up THEN "Upward" ELSE "Downward"
                        /\ signal.result.confidence \in {"High", "Medium"}
                        /\ signal.result.confidence = "High"
                               <=> ((up /\ positive) \/ (~up /\ negative))

\* C16's case: a fall of the price on a volume surge with a negative
\* sentiment has fired a Downward signal of High confidence.
C16_Witness ==
    /\ signal.agent = "news"
    /\ signal.sentiment = "Negative"
    /\ signal.result = [kind |-> "signal", direction |-> "Downward",
                        confidence |-> "High"]

\* C17: the swing signal fires iff the distance from the current price to
\* the support or to the resistance (the 25th and the 75th percentile of the
\* window) is below swing_threshold percent; a fired signal has confidence
\* High iff the volatility is above 2%, Medium otherwise.
C17_SwingRule ==
    (signal.agent = "swing" /\ signal.result.kind # "raise") =>
        LET fired == signal.result.kind = "signal"
            levels == swing_calculate_support_resistance(
                          prices, signal.support_resistance_periods)
            current4 == 4 * prices[Len(prices)]
            toSupport == Abs(current4 - levels[1])
            toResistance == Abs(levels[2] - current4)
        IN IF Len(prices) < signal.lookback_periods THEN ~fired
           ELSE /\ fired <=>
                     \/ toSupport * 100 < signal.swing_threshold * levels[1]
                     \/ toResistance * 100 < signal.swing_threshold * current4
                /\ fired =>
                     /\ signal.result.confidence \in {"High", "Medium"}
                     /\ signal.result.confidence = "High"
                            <=> VolatilityAbove(signal.volatility, 2)

\* C18: after any sequence of optimize_parameters calls, from any starting
\* threshold and whatever the volatility, the volume change, the stop-loss
\* and take-profit and the jitter, the threshold lies in [1.0, 5.0] once a
\* call has returned.
C18_ThresholdWithinBounds ==
    opt.returned > 0 => (1000 <= self_threshold /\ self_threshold <= 5000)

\* C18's case: a second call has returned, and the suggestion of the last
\* one was above 5.0.
C18_Witness ==
    /\ opt.returned >= 2
    /\ opt.suggested > 5000
    /\ self_threshold = 5000

\* C19: a failure of the metrics fetch does not abort the optimization: the
\* token is processed, and threshold and adjustments come out as when the
\* fetch succeeds and reports a volume change of 0.
C19_FailureStep ==
    (/\ opt.pc = "metrics"
     /\ Len(opt'.outcomes) = Len(opt.outcomes) + 1
     /\ opt'.outcomes[Len(opt'.outcomes)] = "failed")
        => /\ opt'.pc # "raised"
           /\ Len(opt'.adjustments) = Len(opt.adjustments) + 1
           /\ \E jitter \in Jitters :
                 LET zero == OptAfterMetrics(
                                 [kind |-> "data", volume_change_24h |-> 0], jitter)
                 IN /\ self_threshold' = zero[1]
                    /\ [opt' EXCEPT !.outcomes = <<>>]
                           = [zero[2] EXCEPT !.outcomes = <<>>]

C19_MetricsFailureIsZeroVolume == [][C19_FailureStep]_vars

\* C19's case: a call has returned although the metrics fetch failed for a
\* token.
C19_Witness ==
    /\ opt.pc = "idle"
    /\ opt.returned >= 1
    /\ "failed" \in Range(opt.outcomes)

\* The price fetch has failed for a token of the cycle and not for all, and
\* every token whose history arrived can be evaluated.
FetchFailedForOne ==
    /\ cycle.agent # "none"
    /\ \E i \in DOMAIN cycle.fetched : cycle.fetched[i].kind = "fail"
    /\ \E i \in DOMAIN cycle.fetched : cycle.fetched[i].kind = "prices"
    /\ \A i \in DOMAIN cycle.fetched :
          cycle.fetched[i].kind = "prices" => cycle.outs[i].kind # "raise"

\* C20: when the price fetch fails for one token, that token is skipped:
\* generate_trading_signals returns a report, which holds the signals of the
\* remaining tokens, instead of raising.
C20_FailedFetchSkipsToken ==
    FetchFailedForOne =>
        /\ cycle.result.kind = "report"
        /\ cycle.result =
              SignalsReport(ConfiguredTokens,
                  [i \in DOMAIN cycle.outs |->
                      IF cycle.fetched[i].kind = "fail" THEN NoSignal
                      ELSE cycle.outs[i]])


\* A complete snapshot with a volume change of 0, which is a 'Normal' volume
\* profile.
NormalSnapshot ==
    CHOOSE m \in VolumeSnapshots :
        m.volume_24_hours > 0 /\ m.volume_24_hours_delta_percent = 0

\* C21, the composite agent: without the metrics, or without the field it
\* reads of them, the volume profile is 'Unknown' and scores 0, and scores
\* and signal are those of a 'Normal' profile.
C21_CompositeNeutral ==
    (/\ signal.agent = "algorithmic"
     /\ "volume_24_hours_delta_percent" \in signal.lacking)
        => /\ signal.result.kind # "raise"
           /\ signal.result = algorithmic_generate_algorithmic_signal(
                                  prices, signal.cfg, NormalSnapshot)
           /\ signal.scores.kind = "scores" =>
                  /\ signal.volume_profile = "Unknown"
                  /\ signal.scores.volume_score = 0
                  /\ signal.scores = algorithmic_scores(prices, signal.cfg, NormalSnapshot)

\* C21, the news agent: without the metrics, or without a field of them,
\* signal generation returns and does not raise.
C21_NewsCompletes ==
    (/\ signal.agent = "news"
     /\ signal.lacking # {}
     /\ signal.result.kind = "raise")
        => signal.result.exc = "ZeroDivisionError"

\* C21: when the metrics source is unavailable (the fetch fails, or the
\* snapshot lacks a field), the indicators that consume metrics take their
\* neutral values and signal generation completes: the composite volume
\* profile is 'Unknown' with score 0, and the news agent's signal generation
\* returns without raising (but for the division by a start price of 0).
C21_MetricsUnavailableNeutral ==
    C21_CompositeNeutral /\ C21_NewsCompletes


\* C22: what _suggest_optimal_threshold returns lies between 1.0 and 5.0,
\* whatever the current threshold, the adjustments of the tokens and the
\* jitter.
C22_SuggestionWithinBounds ==
    opt.returned > 0 => (1000 <= opt.suggested /\ opt.suggested <= 5000)


\* The strategies whose evaluation is in flight or has raised: they are
\* active and have no response.
Unanswered ==
    {k \in StrategyKeys :
        \E c \in Calls :
            /\ \/ pc[c] = "evaluating"
               \/ pc[c] = "raised" /\ error[c] = "EvaluationError"
            /\ Current(c) = k}

\* C23 as stated: at every moment the keys of strategy_responses are among
\* the keys of active_strategies and these among the registered strategies;
\* and when start has returned normally the two key sets are equal.
C23_KeySetsEqualOnReturn ==
    constructed =>
        /\ DictKeys(strategy_responses) \subseteq Range(active_strategies)
        /\ Range(active_strategies) \subseteq DOMAIN strategies
        /\ \A c \in Calls :
              pc[c] = "done" => DictKeys(strategy_responses) = Range(active_strategies)

\* C23 as amended: the inclusions hold at every moment, also after a lookup
\* or an evaluation has raised; the active strategies without a response are
\* exactly those whose evaluation is in flight or has raised; and when a
\* start has returned normally every name of its list is active and every
\* strategy it activated itself has its response.
C23_KeySets ==
    constructed =>
        /\ DictKeys(strategy_responses) \subseteq Range(active_strategies)
        /\ Range(active_strategies) \subseteq DOMAIN strategies
        /\ Range(active_strategies) \ DictKeys(strategy_responses) = Unanswered
        /\ \A c \in Calls :
              pc[c] = "done" =>
                  /\ Range(strategies_to_activate[c]) \subseteq Range(active_strategies)
                  /\ activated[c] \subseteq DictKeys(strategy_responses)

\* C23's case: a start has activated a strategy and returned normally on a
\* manager on which an evaluation of another start raised, so that an active
\* strategy has no response.
C23_Witness ==
    \E c \in Calls, d \in Calls :
        /\ pc[c] = "done"
        /\ activated[c] # {}
        /\ error[d] = "EvaluationError"
        /\ Range(active_strategies) # DictKeys(strategy_responses)


\* How far a call of start has come.
Stage(c) ==
    CASE pc[c] = "idle" -> 0
      [] pc[c] = "base" -> 1
      [] pc[c] = "policy" -> 2
      [] pc[c] = "evaluating" -> 3
      [] pc[c] = "summary" -> 4
      [] pc[c] \in {"done", "raised"} -> 5

\* The names of call c's list up to its loop position.
Visited(c) ==
    {strategies_to_activate[c][j] :
        j \in 1..Min(idx[c], Len(strategies_to_activate[c]))}

\* C24, the states of one start: the policy has answered once as soon as a
\* strategy is evaluated and never twice; while a strategy is evaluated, all
\* that this start activated before have returned their responses; and the
\* summary prompt is out only when the list is through and every strategy
\* this start activated has returned its response.
C24_Ordered ==
    \A c \in Calls :
        /\ policyCalls[c] = (IF Stage(c) <= 2 THEN 0 ELSE 1)
        /\ Stage(c) <= 2 => activated[c] = {}
        /\ activated[c] \subseteq Visited(c)
        /\ pc[c] = "evaluating" =>
              /\ Current(c) \in activated[c]
              /\ Current(c) \notin DictKeys(strategy_responses)
              /\ activated[c] \ {Current(c)} \subseteq DictKeys(strategy_responses)
        /\ ReportBuilt(c) =>
              /\ idx[c] = Len(strategies_to_activate[c]) + 1
              /\ activated[c] \subseteq DictKeys(strategy_responses)

\* C24, the steps of one start: a start never goes back, and only an
\* evaluation is followed by another one, so that policy and summary are
\* awaited once each; the evaluation a step begins is that of the first name
\* after the loop position that is not active yet.
C24_InOrder ==
    \A c \in Calls :
        /\ Stage(c)' >= Stage(c)
        /\ pc'[c] # pc[c] => Stage(c)' > Stage(c)
        /\ (pc'[c] = "evaluating" /\ (pc[c] # "evaluating" \/ idx'[c] # idx[c])) =>
              /\ pc[c] \in {"policy", "evaluating"}
              /\ idx'[c] > idx[c]
              /\ strategies_to_activate'[c][idx'[c]] \notin Range(active_strategies)
              /\ \A j \in (idx[c] + 1)..(idx'[c] - 1) :
                    strategies_to_activate'[c][j] \in Range(active_strategies)

\* C24: within one start the events are totally ordered: the policy is
\* queried exactly once and before any strategy is evaluated, the
\* evaluations run one after another in the order of the policy's list, and
\* the summary prompt is issued exactly once, after every newly activated
\* strategy has returned its response.
C24_TotallyOrdered == [](C24_Ordered) /\ [][C24_InOrder]_vars

\* C24's case: a start has evaluated two strategies that its policy listed
\* and has returned.
C24_Witness ==
    \E c \in Calls :
        /\ pc[c] = "done"
        /\ Cardinality(activated[c]) = 2
        /\ policyCalls[c] = 1


\* The positions of call c's list that hold a name that is not registered.
Unregistered(c) ==
    {j \in DOMAIN strategies_to_activate[c] :
        strategies_to_activate[c][j] \notin DOMAIN strategies}

\* The first of them.
FirstUnregistered(c) == CHOOSE j \in Unregistered(c) : \A i \in Unregistered(c) : j <= i

\* C25: when the policy's list holds a name that is not a registered
\* strategy (the empty name of a bare 'ACTIVATE:' included), start raises at
\* that name: it never gets past it, so no later name is activated and no
\* summary is issued; the names before it stay active, and those this start
\* activated keep their recorded responses.
C25_UnknownNameRaises ==
    \A c \in Calls :
        (Stage(c) >= 3 /\ Unregistered(c) # {}) =>
            LET u == FirstUnregistered(c)
                earlier == {strategies_to_activate[c][j] : j \in 1..(u - 1)}
            IN /\ idx[c] <= u
               /\ ~ReportBuilt(c)
               /\ activated[c] \subseteq earlier
               /\ idx[c] = u =>
                     /\ pc[c] = "raised"
                     /\ error[c] = "KeyError"
                     /\ earlier \subseteq Range(active_strategies)
                     /\ activated[c] \subseteq DictKeys(strategy_responses)

\* C25's case: a start has raised at a name that is not registered, after it
\* activated the name before it and with a name left in its list.
C25_Witness ==
    \E c \in Calls :
        /\ error[c] = "KeyError"
        /\ activated[c] # {}
        /\ idx[c] < Len(strategies_to_activate[c])
        /\ activated[c] \subseteq DictKeys(strategy_responses)


\* C26: with short_term_periods = 1 the short-term reference sample is the
\* current sample, so the short-term change is 0 on every price history and
\* the momentum agent fires no signal, whatever the non-negative threshold.
C26_ShortWindowOfOneNeverFires ==
    (signal.agent = "momentum" /\ signal.short_term_periods = 1) =>
        LET changes == momentum_calculate_price_changes(
                           prices, 1, signal.long_term_periods)
        IN /\ signal.result.kind # "signal"
           /\ changes.kind = "changes" =>
                 /\ changes.short[1] = 0
                 /\ signal.result = NoSignal

\* C26's case: a rise of 10% over the long window, above the threshold, has
\* fired nothing with a short window of one sample.
C26_Witness ==
    /\ signal.agent = "momentum"
    /\ signal.short_term_periods = 1
    /\ signal.long_term_periods = 2
    /\ signal.threshold = 0
    /\ prices = <<100, 110>>
    /\ signal.result = NoSignal


\* The indicators of a fired trend signal agree: MA and MACD vote alike and
\* the RSI votes with them.
AllAgree(votes) ==
    \/ votes = <<"Bullish", "Oversold", "Bullish">>
    \/ votes = <<"Bearish", "Overbought", "Bearish">>

\* What C27 says of a trend agent run on prices, for the rsi_threshold it
\* speaks of: MA and MACD always vote and only the RSI can abstain; a fired
\* signal is Moderate exactly when the RSI is Neutral and MA and MACD agree,
\* Strong exactly when all three agree; and on a strictly increasing history
\* of at least long_ma_periods and rsi_periods + 1 samples the RSI is 100
\* and votes Overbought, so that no Strong Upward signal comes of it.
TrendVotesAsStated(thresholdInRange) ==
    (signal.agent = "trend" /\ Len(prices) >= signal.cfg.long_ma_periods) =>
        LET votes == signal.votes
            fired == signal.result.kind = "signal"
        IN /\ votes[1] \in {"Bullish", "Bearish"}
           /\ votes[3] \in {"Bullish", "Bearish"}
           /\ votes[2] \in {"Oversold", "Overbought", "Neutral"}
           /\ fired =>
                 /\ signal.result.strength = "Moderate"
                        <=> (votes[2] = "Neutral" /\ votes[1] = votes[3])
                 /\ signal.result.strength = "Strong" <=> AllAgree(votes)
           /\ (/\ Len(prices) >= signal.cfg.rsi_periods + 1
               /\ StrictlyMonotone(prices, Len(prices) - 1, 1)
               /\ thresholdInRange)
                  => /\ trend_calculate_rsi(prices, signal.cfg.rsi_periods) = <<100, 1>>
                     /\ votes[2] = "Overbought"
                     /\ signal.result # [kind |-> "signal", direction |-> "Upward",
                                         strength |-> "Strong"]

\* C27 as stated, for every rsi_threshold > 0.
C27_TrendVotes ==
    TrendVotesAsStated(signal.cfg.rsi_threshold > 0)

\* C27 as amended, for 0 < rsi_threshold <= 100: above 100 an RSI of 100 is
\* below the threshold and votes Oversold.
C27_TrendVotesInRange ==
    TrendVotesAsStated(signal.cfg.rsi_threshold > 0 /\ signal.cfg.rsi_threshold <= 100)

\* C27's case: on a strictly increasing history the MA cross votes Bullish
\* and the RSI of 100 votes Overbought.
C27_Witness ==
    /\ signal.agent = "trend"
    /\ signal.cfg.rsi_threshold = 30
    /\ prices = <<100, 102, 110>>
    /\ signal.cfg.rsi_periods = 2
    /\ signal.votes[1] = "Bullish"
    /\ signal.votes[2] = "Overbought"


\* What C28 says of a swing agent that has evaluated its rule on prices: at
\* or below a positive support the signal is Upward, and a Downward signal
\* means a signed distance above support of at least swing_threshold percent
\* and a signed distance below resistance under it.  positivePrice restricts
\* the first part to histories whose current price is above 0.
SwingSupportFirst(positivePrice) ==
    (signal.agent = "swing" /\ Len(prices) >= signal.lookback_periods) =>
        LET levels == swing_calculate_support_resistance(
                          prices, signal.support_resistance_periods)
            support4 == levels[1]
            resistance4 == levels[2]
            current4 == 4 * prices[Len(prices)]
        IN /\ ( /\ support4 > 0
                /\ current4 <= support4
                /\ signal.swing_threshold > 0
                /\ positivePrice => current4 > 0 )
              => /\ signal.result.kind = "signal"
                 /\ signal.result.direction = "Upward"
           /\ ( /\ signal.result.kind = "signal"
                /\ signal.result.direction = "Downward" )
              => /\ (current4 - support4) * 100
                        >= signal.swing_threshold * support4
                 /\ (resistance4 - current4) * 100
                        < signal.swing_threshold * current4

\* C28: the swing rule checks support first and uses a signed distance:
\* whenever the current price is at or below a positive support level the
\* signal is Upward for every positive swing_threshold, and a Downward
\* signal is returned only when the distance above support is at least
\* swing_threshold and the distance below resistance is under it.
C28_SupportFirstSigned == SwingSupportFirst(FALSE)

\* The same for current prices above 0, where line 151 of swing.py can
\* divide.
C28_SupportFirstOnPositivePrice == SwingSupportFirst(TRUE)

\* C28's cases: a price below the support has fired Upward; a price above
\* the resistance has fired Downward.
C28_Witness ==
    /\ signal.agent = "swing"
    /\ prices = <<110, 110, 100>>
    /\ signal.support_resistance_periods = 3
    /\ signal.result.kind = "signal"
    /\ signal.result.direction = "Upward"

C28_WitnessDownward ==
    /\ signal.agent = "swing"
    /\ prices = <<100, 100, 110>>
    /\ signal.support_resistance_periods = 3
    /\ signal.result.kind = "signal"
    /\ signal.result.direction = "Downward"


\* C29: _analyze_market_sentiment never returns "Very Negative": what it
\* returns is one of "Very Positive", "Positive", "Negative" and "Neutral",
\* and every engagement change below -50 (of a snapshot that counts
\* engagements) is classified "Negative", whatever the followers.
C29_NeverVeryNegative ==
    (signal.agent = "news" /\ signal.metrics # NoMetrics
         /\ signal.sentiment # "AttributeError") =>
        /\ signal.sentiment \in {"Very Positive", "Positive", "Negative", "Neutral"}
        /\ ( /\ signal.metrics.average_engagements_count # 0
             /\ signal.metrics.average_engagements_count_delta_percent < -50 )
           => signal.sentiment = "Negative"

\* C29's case: engagements down by 60% and fewer followers than smart
\* followers, the snapshot the "Very Negative" test is written for, have been
\* classified "Negative".
C29_Witness ==
    /\ signal.agent = "news"
    /\ signal.lacking = {}
    /\ signal.metrics.average_engagements_count = 10
    /\ signal.metrics.average_engagements_count_delta_percent = -60
    /\ signal.metrics.followers_count < signal.metrics.smart_followers_count
    /\ signal.sentiment = "Negative"

\* The news agent has no volume data: the snapshot lacks volume_24_hours or
\* gives 0 for it.
VolumeAbsent(metrics) ==
    \/ "volume_24_hours" \notin DOMAIN metrics
    \/ metrics.volume_24_hours = 0

C30_WitnessSurge ==
    /\ signal.agent = "news"
    /\ signal.lacking = {}
    /\ signal.metrics.volume_24_hours = 4800
    /\ signal.metrics.volume_24_hours_delta_percent = 400
    /\ signal.volume_surge = Fin(400, 100)
    /\ signal.cfg.volume_surge_threshold = 3
    /\ signal.result.kind = "signal"

====
